---------------------------- MODULE Spec2Model ----------------------------
(***************************************************************************)
(* A model of xStonks' indicator engine and batch runner (src/xstonks.py). *)
(*                                                                         *)
(* Floating point values are modelled as exact rationals extended with the *)
(* IEEE special values NaN and +/- infinity, which is what numpy and       *)
(* pandas produce on 0/0 and x/0 instead of raising.  Rounding error of    *)
(* float64 is not modelled.                                                *)
(***************************************************************************)
EXTENDS Integers, Sequences, FiniteSets, TLC

(***************************************************************************)
(* Python values that are not numbers.                                     *)
(***************************************************************************)
None == "None"

(***************************************************************************)
(* float: [k |-> "num", n |-> numerator, d |-> denominator > 0] in lowest   *)
(* terms, or k = "nan" / "inf" / "ninf".                                   *)
(***************************************************************************)
Abs(x) == IF x < 0 THEN -x ELSE x

Sign(x) == IF x < 0 THEN -1 ELSE IF x > 0 THEN 1 ELSE 0

RECURSIVE GCD(_, _)
GCD(a, b) == IF b = 0 THEN a ELSE GCD(b, a % b)

NaN == [k |-> "nan", n |-> 0, d |-> 1]

PosInf == [k |-> "inf", n |-> 1, d |-> 1]

NegInf == [k |-> "ninf", n |-> -1, d |-> 1]

Num(n, d) ==
    LET g == GCD(Abs(n), Abs(d))
        s == IF d < 0 THEN -1 ELSE 1
    IN  [k |-> "num", n |-> s * (n \div g), d |-> s * (d \div g)]

Float(i) == [k |-> "num", n |-> i, d |-> 1]

IsNaN(x) == x.k = "nan"

IsNum(x) == x.k = "num"

\* sign of a non-NaN float: -1, 0 or 1
FSign(x) == Sign(x.n)

FNeg(x) ==
    CASE x.k = "nan" -> NaN
      [] x.k = "inf" -> NegInf
      [] x.k = "ninf" -> PosInf
      [] OTHER -> [k |-> "num", n |-> -x.n, d |-> x.d]

FAdd(x, y) ==
    CASE x.k = "nan" \/ y.k = "nan" -> NaN
      [] x.k = "num" /\ y.k = "num" ->
            LET g == GCD(x.d, y.d)
                l == (x.d \div g) * y.d
            IN  Num(x.n * (l \div x.d) + y.n * (l \div y.d), l)
      [] x.k = "num" -> y
      [] y.k = "num" -> x
      [] OTHER -> IF x.k = y.k THEN x ELSE NaN

FSub(x, y) == FAdd(x, FNeg(y))

FMul(x, y) ==
    CASE x.k = "nan" \/ y.k = "nan" -> NaN
      [] x.k = "num" /\ y.k = "num" ->
            LET g1 == GCD(Abs(x.n), y.d)
                g2 == GCD(Abs(y.n), x.d)
            IN  Num((x.n \div g1) * (y.n \div g2), (x.d \div g2) * (y.d \div g1))
      [] OTHER ->
            LET s == FSign(x) * FSign(y)
            IN  IF s = 0 THEN NaN ELSE IF s > 0 THEN PosInf ELSE NegInf

\* numpy division: x/0 is +/-inf, 0/0 is NaN, nothing raises
FDiv(x, y) ==
    CASE x.k = "nan" \/ y.k = "nan" -> NaN
      [] x.k = "num" /\ y.k = "num" ->
            IF y.n = 0
            THEN IF x.n = 0 THEN NaN ELSE IF x.n > 0 THEN PosInf ELSE NegInf
            ELSE FMul(x, Num(y.d, y.n))
      [] x.k = "num" -> Float(0)
      [] y.k = "num" ->
            LET s == FSign(x) * (IF y.n < 0 THEN -1 ELSE 1)
            IN  IF s > 0 THEN PosInf ELSE NegInf
      [] OTHER -> NaN

\* comparisons: every comparison with NaN is false
FLt(x, y) ==
    CASE x.k = "nan" \/ y.k = "nan" -> FALSE
      [] x.k = "num" /\ y.k = "num" -> FSub(x, y).n < 0
      [] x.k = "ninf" -> y.k # "ninf"
      [] y.k = "inf" -> x.k # "inf"
      [] OTHER -> FALSE

FGt(x, y) == FLt(y, x)

FEq(x, y) == x.k # "nan" /\ y.k # "nan" /\ x = y

FLe(x, y) == FLt(x, y) \/ FEq(x, y)

FGe(x, y) == FLe(y, x)

FAbs(x) == IF x.k = "nan" THEN NaN ELSE IF FSign(x) < 0 THEN FNeg(x) ELSE x

FMin(x, y) == IF FLt(y, x) THEN y ELSE x


(***************************************************************************)
(* Series: a pandas Series of floats is a sequence of floats.              *)
(***************************************************************************)
\* a sequence with its elements evaluated
Strict(s) == SubSeq(s, 1, Len(s))

\* s[lo] + ... + s[hi]
RECURSIVE SumRange(_, _, _)
SumRange(s, lo, hi) ==
    IF lo > hi THEN Float(0)
    ELSE IF lo = hi THEN s[lo]
    ELSE LET mid == (lo + hi) \div 2
         IN  FAdd(SumRange(s, lo, mid), SumRange(s, mid + 1, hi))

\* Series.rolling(window).mean(): NaN until the window is full, and NaN when
\* the window holds a NaN (min_periods defaults to the window)
RollingMean(s, window) ==
    [i \in 1..Len(s) |->
        IF i < window THEN NaN
        ELSE FDiv(SumRange(s, i - window + 1, i), Float(window))]

\* Series.rolling(window).var(): sample variance (ddof = 1) of the window
RollingVar(s, window) ==
    [i \in 1..Len(s) |->
        IF i < window THEN NaN
        ELSE LET sq == [j \in 1..Len(s) |-> FMul(s[j], s[j])]
                 sx == SumRange(s, i - window + 1, i)
                 sxx == SumRange(sq, i - window + 1, i)
             IN  FDiv(FSub(sxx, FDiv(FMul(sx, sx), Float(window))), Float(window - 1))]

\* Series.diff(): first element NaN
Diff(s) == [i \in 1..Len(s) |-> IF i = 1 THEN NaN ELSE FSub(s[i], s[i - 1])]

ClipLower0(x) == IF IsNaN(x) THEN NaN ELSE IF FLt(x, Float(0)) THEN Float(0) ELSE x

ClipUpper0(x) == IF IsNaN(x) THEN NaN ELSE IF FGt(x, Float(0)) THEN Float(0) ELSE x

\* Series.ewm(span, adjust=False).mean(): y[1] = x[1],
\* y[t] = (1 - alpha) * y[t-1] + alpha * x[t] with alpha = 2 / (span + 1)
RECURSIVE EwmFrom(_, _, _)
EwmFrom(s, alpha, acc) ==
    IF Len(acc) = Len(s) THEN acc
    ELSE LET t == Len(acc) + 1
             y == IF t = 1 THEN s[1]
                  ELSE FAdd(FMul(FSub(Float(1), alpha), acc[t - 1]), FMul(alpha, s[t]))
         IN  EwmFrom(s, alpha, Append(acc, y))

EwmMean(s, span) == EwmFrom(Strict(s), Num(2, span + 1), << >>)

(***************************************************************************)
(* Technical indicator functions                                            *)
(***************************************************************************)
compute_moving_average(prices, period) == RollingMean(prices, period)

compute_rsi_nan_on_zero_loss(prices, period) ==
    LET delta == Diff(prices)
        gain == [i \in 1..Len(prices) |-> ClipLower0(delta[i])]
        loss == [i \in 1..Len(prices) |-> FNeg(ClipUpper0(delta[i]))]
        avg_gain == RollingMean(gain, period)
        avg_loss == RollingMean(loss, period)
    IN  [i \in 1..Len(prices) |->
            IF FEq(avg_loss[i], Float(0)) THEN NaN
            ELSE LET rs == FDiv(avg_gain[i], avg_loss[i])
                 IN  FSub(Float(100), FDiv(Float(100), FAdd(Float(1), rs)))]

compute_rsi_neutral_on_flat(prices, period) ==
    LET delta == Diff(prices)
        gain == [i \in 1..Len(prices) |-> ClipLower0(delta[i])]
        loss == [i \in 1..Len(prices) |-> FNeg(ClipUpper0(delta[i]))]
        avg_gain == RollingMean(gain, period)
        avg_loss == RollingMean(loss, period)
    IN  [i \in 1..Len(prices) |->
            IF FEq(avg_loss[i], Float(0)) /\ FEq(avg_gain[i], Float(0)) THEN Float(50)
            ELSE LET rs == FDiv(avg_gain[i], avg_loss[i])
                 IN  FSub(Float(100), FDiv(Float(100), FAdd(Float(1), rs)))]

compute_rsi(prices, period) ==
    LET delta == Diff(prices)
        gain == [i \in 1..Len(prices) |-> ClipLower0(delta[i])]
        loss == [i \in 1..Len(prices) |-> FNeg(ClipUpper0(delta[i]))]
        avg_gain == RollingMean(gain, period)
        avg_loss == RollingMean(loss, period)
    IN  [i \in 1..Len(prices) |->
            LET rs == FDiv(avg_gain[i], avg_loss[i])
            IN  FSub(Float(100), FDiv(Float(100), FAdd(Float(1), rs)))]

compute_macd_swapped(prices, fast, slow, signal) ==
    LET ema_fast == EwmMean(prices, fast)
        ema_slow == EwmMean(prices, slow)
        macd_line == Strict([i \in 1..Len(prices) |-> FSub(ema_slow[i], ema_fast[i])])
        signal_line == EwmMean(macd_line, signal)
    IN  [macd_line |-> macd_line,
         signal_line |-> signal_line,
         macd_hist |-> [i \in 1..Len(prices) |-> FSub(macd_line[i], signal_line[i])]]

compute_macd(prices, fast, slow, signal) ==
    LET ema_fast == EwmMean(prices, fast)
        ema_slow == EwmMean(prices, slow)
        macd_line == Strict([i \in 1..Len(prices) |-> FSub(ema_fast[i], ema_slow[i])])
        signal_line == EwmMean(macd_line, signal)
    IN  [macd_line |-> macd_line,
         signal_line |-> signal_line,
         macd_hist |-> [i \in 1..Len(prices) |-> FSub(macd_line[i], signal_line[i])]]

(***************************************************************************)
(* A band value a + b * sqrt(v): the rolling standard deviation is the     *)
(* square root of the rolling variance, kept exact as [a, b, v].  The band *)
(* is NaN when a, b or v is.                                               *)
(***************************************************************************)
Band(a, b, v) ==
    IF IsNaN(a) \/ IsNaN(b) \/ IsNaN(v) THEN [a |-> NaN, b |-> NaN, v |-> NaN]
    ELSE IF FSign(b) = 0 \/ FSign(v) = 0 THEN [a |-> a, b |-> Float(0), v |-> Float(0)]
    ELSE [a |-> a, b |-> b, v |-> v]

BandScale(c, s) == Band(FMul(c, s.a), FMul(c, s.b), s.v)

\* x <= a + b * sqrt(v), decided on the squares
FLeBand(x, s) ==
    IF IsNaN(x) \/ IsNaN(s.a) THEN FALSE
    ELSE LET t == FSub(x, s.a)
             t2 == FMul(t, t)
             b2v == FMul(FMul(s.b, s.b), s.v)
         IN  IF FSign(s.b) >= 0
             THEN FSign(t) <= 0 \/ FLe(t2, b2v)
             ELSE FSign(t) <= 0 /\ FGe(t2, b2v)

compute_bollinger_bands(prices, period, num_std) ==
    LET sma == RollingMean(prices, period)
        rolling_var == RollingVar(prices, period)
    IN  [sma |-> sma,
         upper_band |-> [i \in 1..Len(prices) |-> Band(sma[i], num_std, rolling_var[i])],
         lower_band |-> [i \in 1..Len(prices) |-> Band(sma[i], FNeg(num_std), rolling_var[i])]]

(***************************************************************************)
(* DataFrame: [cols |-> the column names, rows |-> the rows in order]; a   *)
(* row has a field for each column the model uses, read only when the      *)
(* column is in cols.  A call either returns a value or raises.            *)
(***************************************************************************)
Column(df, c) == [i \in 1..Len(df.rows) |-> df.rows[i][c]]

Return(v) == [exc |-> "none", value |-> v]

Raise(e) == [exc |-> e, value |-> FALSE]

(***************************************************************************)
(* Additional bullish signal functions                                      *)
(***************************************************************************)
MacdFast == 12

MacdSlow == 26

MacdSignal == 9

check_bullish_macd_nonstrict(prices) ==
    LET m == compute_macd(prices, MacdFast, MacdSlow, MacdSignal)
        n == Len(prices)
    IN  IF n < 2 THEN Return(FALSE)
        ELSE Return(FLe(m.macd_line[n - 1], m.signal_line[n - 1])
                    /\ FGe(m.macd_line[n], m.signal_line[n]))

check_bullish_macd(prices) ==
    LET m == compute_macd(prices, MacdFast, MacdSlow, MacdSignal)
        n == Len(prices)
    IN  IF n < 2 THEN Return(FALSE)
        ELSE Return(FLt(m.macd_line[n - 1], m.signal_line[n - 1])
                    /\ FGt(m.macd_line[n], m.signal_line[n]))

NearBandFactor == Num(101, 100)

NearLowerBandExact(latest_price, lower) == FLeBand(latest_price, lower)

\* line 151: latest_price <= lower_band.iloc[-1] * 1.01
NearLowerBand(latest_price, lower) ==
    FLeBand(latest_price, BandScale(NearBandFactor, lower))

check_bollinger_bounce(df, period, num_std) ==
    IF "close_price" \notin df.cols THEN Raise("KeyError")
    ELSE LET close == Column(df, "close_price")
             n == Len(df.rows)
             b == compute_bollinger_bands(close, period, num_std)
         IN  IF n = 0 THEN Raise("IndexError")
             ELSE Return(NearLowerBand(close[n], b.lower_band[n])
                         /\ FGt(close[n], b.sma[n]))

VolumeWindow == 20

check_volume_spike_any_columns(df, multiplier) ==
    LET volume == Column(df, "volume")
        n == Len(df.rows)
    IN  IF n = 0 THEN Raise("IndexError")
        ELSE LET avg_volume == RollingMean(volume, VolumeWindow)[n]
                 latest_volume == volume[n]
             IN  Return(FGt(avg_volume, Float(0))
                        /\ FGe(latest_volume, FMul(multiplier, avg_volume)))

check_volume_spike_strict(df, multiplier) ==
    IF "volume" \notin df.cols THEN Return(FALSE)
    ELSE LET volume == Column(df, "volume")
             n == Len(df.rows)
         IN  IF n = 0 THEN Raise("IndexError")
             ELSE LET avg_volume == RollingMean(volume, VolumeWindow)[n]
                      latest_volume == volume[n]
                  IN  Return(FGt(avg_volume, Float(0))
                             /\ FGt(latest_volume, FMul(multiplier, avg_volume)))

check_volume_spike(df, multiplier) ==
    IF "volume" \notin df.cols THEN Return(FALSE)
    ELSE LET volume == Column(df, "volume")
             n == Len(df.rows)
         IN  IF n = 0 THEN Raise("IndexError")
             ELSE LET avg_volume == RollingMean(volume, VolumeWindow)[n]
                      latest_volume == volume[n]
                  IN  Return(FGt(avg_volume, Float(0))
                             /\ FGe(latest_volume, FMul(multiplier, avg_volume)))

detect_bullish_engulfing_nonstrict(df) ==
    IF Len(df.rows) < 2 \/ "open_price" \notin df.cols \/ "close_price" \notin df.cols
    THEN Return(FALSE)
    ELSE LET prev == df.rows[Len(df.rows) - 1]
             curr == df.rows[Len(df.rows)]
         IN  Return(/\ FLt(prev.close_price, prev.open_price)
                    /\ FGt(curr.close_price, curr.open_price)
                    /\ FLe(curr.open_price, prev.close_price)
                    /\ FGe(curr.close_price, prev.open_price))

detect_bullish_engulfing(df) ==
    IF Len(df.rows) < 2 \/ "open_price" \notin df.cols \/ "close_price" \notin df.cols
    THEN Return(FALSE)
    ELSE LET prev == df.rows[Len(df.rows) - 1]
             curr == df.rows[Len(df.rows)]
         IN  Return(/\ FLt(prev.close_price, prev.open_price)
                    /\ FGt(curr.close_price, curr.open_price)
                    /\ FLt(curr.open_price, prev.close_price)
                    /\ FGt(curr.close_price, prev.open_price))

HammerBodyRatio == Num(3, 10)

HammerShadowRatio == Float(2)

detect_bullish_hammer(df) ==
    IF Len(df.rows) < 1
       \/ ~ ({"open_price", "close_price", "high_price", "low_price"} \subseteq df.cols)
    THEN Return(FALSE)
    ELSE LET latest == df.rows[Len(df.rows)]
             body == FAbs(FSub(latest.close_price, latest.open_price))
             candle_range == FSub(latest.high_price, latest.low_price)
             lower_shadow == FSub(FMin(latest.open_price, latest.close_price), latest.low_price)
         IN  IF FEq(candle_range, Float(0)) \/ FEq(body, Float(0)) THEN Return(FALSE)
             ELSE Return(FLt(FDiv(body, candle_range), HammerBodyRatio)
                         /\ FGt(FDiv(lower_shadow, body), HammerShadowRatio))

\* lines 131-205: the five detectors read df and the Series taken from it;
\* none of them assigns to df, to a column of it or to a cell of it
DetectorCallerFrame(df) == df

(***************************************************************************)
(* Golden-cross-imminent.  The result carries the return statement taken   *)
(* (exit) and the values the function prints before deciding.              *)
(***************************************************************************)
Tail_n(s, n) == IF n >= Len(s) THEN s ELSE SubSeq(s, Len(s) - n + 1, Len(s))

InsufficientDataOffByOne(df, long_period) == Len(df.rows) < long_period - 1

\* line 307: len(df) < long_period
InsufficientData(df, long_period) == Len(df.rows) < long_period

CrossAlreadyOccurredStrict(current_ma_short, current_ma_long) ==
    FGt(current_ma_short, current_ma_long)

\* line 324: current_ma_short >= current_ma_long
CrossAlreadyOccurred(current_ma_short, current_ma_long) ==
    FGe(current_ma_short, current_ma_long)

RecentDataOneMore(df_clean, lookback) == Tail_n(df_clean, lookback + 1)

RecentDataAtLeastTwo(df_clean, lookback) ==
    Tail_n(df_clean, IF lookback < 2 THEN 2 ELSE lookback)

\* line 336: df_clean.tail(lookback)
RecentData(df_clean, lookback) == Tail_n(df_clean, lookback)

CrossResult(r, e, ss, gs, cgr) ==
    [result |-> r, exit |-> e, slope_short |-> ss, gap_slope |-> gs, current_gap_ratio |-> cgr]

is_golden_cross_imminent(df, short_period, long_period, lookback, gap_threshold) ==
    IF InsufficientData(df, long_period)
    THEN CrossResult(FALSE, "insufficient_data", NaN, NaN, NaN)
    ELSE LET close == Column(df, "close_price")
             n == Len(df.rows)
             ma_short == RollingMean(close, short_period)
             ma_long == RollingMean(close, long_period)
             current_ma_short == ma_short[n]
             current_ma_long == ma_long[n]
         IN  IF CrossAlreadyOccurred(current_ma_short, current_ma_long)
             THEN CrossResult(FALSE, "crossed", NaN, NaN, NaN)
             ELSE LET both == [i \in 1..n |-> [ma_short |-> ma_short[i], ma_long |-> ma_long[i]]]
                      IsClean(r) == ~ IsNaN(r.ma_short) /\ ~ IsNaN(r.ma_long)
                      df_clean == SelectSeq(both, IsClean)
                  IN  IF Len(df_clean) < lookback
                      THEN CrossResult(FALSE, "insufficient_clean", NaN, NaN, NaN)
                      ELSE LET recent_data == RecentData(df_clean, lookback)
                               m == Len(recent_data)
                               recent_gap == [i \in 1..m |->
                                   FSub(recent_data[i].ma_long, recent_data[i].ma_short)]
                               slope_short == FDiv(FSub(recent_data[m].ma_short,
                                                        recent_data[1].ma_short),
                                                   Float(lookback))
                               gap_slope == FDiv(FSub(recent_gap[m], recent_gap[1]),
                                                 Float(lookback))
                               current_gap_ratio == FDiv(FSub(current_ma_long, current_ma_short),
                                                         current_ma_long)
                           IN  CrossResult(FGt(slope_short, Float(0))
                                             /\ FLt(gap_slope, Float(0))
                                             /\ FLe(current_gap_ratio, gap_threshold),
                                           "evaluated", slope_short, gap_slope,
                                           current_gap_ratio)

\* lines 315-316: df['ma_short'] = ..., df['ma_long'] = ... on the frame that
\* the name df is bound to at that point
WithMovingAverages(df, short_period, long_period) ==
    LET close == Column(df, "close_price")
        ma_short == Strict(RollingMean(close, short_period))
        ma_long == Strict(RollingMean(close, long_period))
    IN  [df EXCEPT
            !.cols = @ \cup {"ma_short", "ma_long"},
            !.rows = [i \in 1..Len(df.rows) |->
                        [c \in DOMAIN df.rows[i] \cup {"ma_short", "ma_long"} |->
                            IF c = "ma_short" THEN ma_short[i]
                            ELSE IF c = "ma_long" THEN ma_long[i]
                            ELSE df.rows[i][c]]]]

AssignInPlace(caller_df, written) == written

\* line 312: df = df.copy(): the name df is rebound to a new object, so what
\* is written afterwards does not reach the caller's frame
AssignToCopy(caller_df, written) == caller_df

\* the caller's frame after is_golden_cross_imminent has returned
is_golden_cross_imminent_caller_frame(df, short_period, long_period) ==
    IF InsufficientData(df, long_period) THEN df
    ELSE AssignToCopy(df, WithMovingAverages(df, short_period, long_period))

(***************************************************************************)
(* Upstream (robin_stocks) responses.                                      *)
(*                                                                         *)
(* A top-movers entry is a JSON object.  kind says what Python value it    *)
(* is: "dict_str" is {"symbol": "<ticker>"}, "dict_dict" is                *)
(* {"symbol": {"symbol": "<ticker>"}}, "dict_nokey" has no "symbol" key,   *)
(* and "str" is the ticker string itself.                                  *)
(***************************************************************************)
Tickers == {"AAPL", "TSLA"}

PyVal(kind, ticker) == [kind |-> kind, ticker |-> ticker]

\* value["symbol"]
Subscript(v) ==
    CASE v.kind = "str" -> Raise("TypeError")
      [] v.kind = "dict_nokey" -> Raise("KeyError")
      [] v.kind = "dict_str" -> Return(PyVal("str", v.ticker))
      [] v.kind = "dict_dict" -> Return(PyVal("dict_str", v.ticker))

MaxMovers == 2

MoverEntries == {PyVal(k, t) : k \in {"dict_str", "dict_dict", "dict_nokey"}, t \in Tickers}

RECURSIVE SeqsUpTo(_, _)
SeqsUpTo(S, n) ==
    IF n = 0 THEN {<< >>}
    ELSE LET shorter == SeqsUpTo(S, n - 1)
         IN  shorter \cup {Append(q, x) : q \in {r \in shorter : Len(r) = n - 1}, x \in S}

\* what r.markets.get_top_movers answers: it raises, or a list of entries
MoversResponses ==
    {[ok |-> FALSE, data |-> << >>]}
        \cup {[ok |-> TRUE, data |-> d] : d \in SeqsUpTo(MoverEntries, MaxMovers)}

\* a Python value that is None or a list
PyNone == [none |-> TRUE, list |-> << >>]

PyList(l) == [none |-> FALSE, list |-> l]

get_top_movers(resp) ==
    IF ~ resp.ok THEN PyNone
    ELSE IF Len(resp.data) = 0 THEN PyNone
    ELSE LET ticker == Subscript(resp.data[1])
         IN  IF ticker.exc # "none" THEN PyNone
             ELSE PyList(<<ticker.value>>)

(***************************************************************************)
(* Quotes.  The upstream quote call raises ("error"), answers None         *)
(* ("none") or answers a dict ("dict") whose last_trade_price is a numeric *)
(* string ("num", value v), a string that is no number ("junk"), null      *)
(* ("null"), or missing from the dict ("absent").                          *)
(***************************************************************************)
BasePrice == 150

LastPrices == {BasePrice - 1, BasePrice + 1, BasePrice + 3}

QuoteResponses ==
    {[kind |-> k, price |-> "absent", v |-> 0] : k \in {"error", "none"}}
        \cup {[kind |-> "dict", price |-> p, v |-> 0] : p \in {"junk", "null", "absent"}}
        \cup {[kind |-> "dict", price |-> "num", v |-> v] : v \in LastPrices}

\* get_quote: the quote, or None when the call raises
get_quote(q) == IF q.kind = "error" THEN [q EXCEPT !.kind = "none"] ELSE q

ParseLastTradePriceNoDefault(quote) ==
    CASE quote.price = "absent" -> Raise("TypeError")
      [] quote.price = "num" -> Return(Float(quote.v))
      [] quote.price = "junk" -> Raise("ValueError")
      [] quote.price = "null" -> Raise("TypeError")

\* float(quote.get('last_trade_price', 0))
ParseLastTradePrice(quote) ==
    CASE quote.price = "absent" -> Return(Float(0))
      [] quote.price = "num" -> Return(Float(quote.v))
      [] quote.price = "junk" -> Raise("ValueError")
      [] quote.price = "null" -> Raise("TypeError")

(***************************************************************************)
(* Candles.  The upstream historicals call raises ("error"), answers no    *)
(* candles ("empty"), candles without a close_price ("nokey"), candles     *)
(* with a close_price that is no number ("junk"), or candles whose fields  *)
(* are numeric strings ("rows": the integers below are their values).      *)
(* A series is a run of equal flat candles followed by free candles.       *)
(***************************************************************************)
BaseVolume == 1000

RawCandle(o, c, h, l, v) ==
    [begins_at |-> 0, open_price |-> o, high_price |-> h, low_price |-> l,
     close_price |-> c, volume |-> v]

FlatCandle == RawCandle(BasePrice, BasePrice, BasePrice, BasePrice, BaseVolume)

FreeCandles ==
    { RawCandle(BasePrice, BasePrice + 1, BasePrice + 1, BasePrice, BaseVolume),
      RawCandle(BasePrice + 1, BasePrice - 1, BasePrice + 1, BasePrice - 1, BaseVolume),
      RawCandle(BasePrice - 2, BasePrice + 2, BasePrice + 2, BasePrice - 2, 2 * BaseVolume),
      RawCandle(BasePrice, BasePrice + 1, BasePrice + 1, BasePrice - 3, BaseVolume),
      RawCandle(BasePrice, BasePrice, BasePrice + 1, BasePrice - 1, 0),
      FlatCandle }

PrefixLens == {0, 13, 48, 49}

SuffixLens == {0, 1, 2}

AllCols == {"begins_at", "open_price", "high_price", "low_price", "close_price", "volume"}

ColSets == {AllCols, AllCols \ {"volume"}}

\* candles stamped 1, 2, ... in the order given
Stamp(rows) == [i \in 1..Len(rows) |-> [rows[i] EXCEPT !.begins_at = i]]

RawSeries ==
    { Stamp([i \in 1..n |-> FlatCandle] \o suffix) :
        n \in PrefixLens,
        suffix \in {q \in SeqsUpTo(FreeCandles, 2) : Len(q) \in SuffixLens} }

\* candles sent without one or more of the optional columns, on the series
\* of up to SparseMaxLen candles
SparseColSets ==
    {AllCols \ {"open_price"}, AllCols \ {"high_price"}, AllCols \ {"low_price"},
     AllCols \ {"high_price", "low_price"}, AllCols \ {"open_price", "volume"}}

SparseMaxLen == 15

Reverse(rows) == [i \in 1..Len(rows) |-> rows[Len(rows) + 1 - i]]

\* two-candle series sent latest candle first
DescendingSeries == {Reverse(r) : r \in {x \in RawSeries : Len(x) = 2}}

HistResponses ==
    {[kind |-> k, cols |-> {}, rows |-> << >>] : k \in {"error", "empty"}}
        \cup {[kind |-> k, cols |-> AllCols, rows |-> <<FlatCandle>>] : k \in {"nokey", "junk"}}
        \cup {[kind |-> "rows", cols |-> cs, rows |-> r] :
                cs \in ColSets, r \in {x \in RawSeries : Len(x) > 0}}
        \cup {[kind |-> "rows", cols |-> AllCols, rows |-> r] : r \in DescendingSeries}
        \cup {[kind |-> "rows", cols |-> cs, rows |-> r] :
                cs \in SparseColSets,
                r \in {x \in RawSeries : Len(x) > 0 /\ Len(x) <= SparseMaxLen}}

\* the candle responses the batch runner's symbols draw from
BatchHistResponses ==
    {h \in HistResponses : h.kind # "rows" \/ (h.cols = AllCols /\ Len(h.rows) <= 1)}

\* Series.astype(float) on a column of numeric strings
ParseRow(r) ==
    [begins_at |-> r.begins_at,
     open_price |-> Float(r.open_price), high_price |-> Float(r.high_price),
     low_price |-> Float(r.low_price), close_price |-> Float(r.close_price),
     volume |-> Float(r.volume)]

NoFrame == [none |-> TRUE, cols |-> {}, rows |-> << >>]

Frame(cols, rows) == [none |-> FALSE, cols |-> cols, rows |-> rows]

\* get_historicals: the parsed DataFrame in upstream order, or None
get_historicals(h) ==
    CASE h.kind = "error" -> NoFrame
      [] h.kind = "empty" -> NoFrame
      [] h.kind = "nokey" -> NoFrame
      [] h.kind = "junk" -> NoFrame
      [] OTHER -> Frame(h.cols, [i \in 1..Len(h.rows) |-> ParseRow(h.rows[i])])

\* DataFrame.sort_values("begins_at") and reset_index: a stable sort
RECURSIVE InsertByTime(_, _)
InsertByTime(sorted, row) ==
    IF Len(sorted) = 0 THEN <<row>>
    ELSE IF sorted[Len(sorted)].begins_at <= row.begins_at THEN Append(sorted, row)
    ELSE Append(InsertByTime(SubSeq(sorted, 1, Len(sorted) - 1), row), sorted[Len(sorted)])

RECURSIVE SortByTimeFrom(_, _, _)
SortByTimeFrom(rows, k, acc) ==
    IF k > Len(rows) THEN acc
    ELSE SortByTimeFrom(rows, k + 1, InsertByTime(acc, rows[k]))

SortByTime(rows) == SortByTimeFrom(rows, 1, << >>)

\* generate_historical_dataframes, for one symbol: the parsed DataFrame
\* sorted by begins_at, or no entry for the symbol
generate_historical_dataframes(h) ==
    CASE h.kind = "error" -> NoFrame
      [] h.kind = "empty" -> NoFrame
      [] h.kind = "nokey" -> NoFrame
      [] h.kind = "junk" -> NoFrame
      [] OTHER -> Frame(h.cols, SortByTime([i \in 1..Len(h.rows) |-> ParseRow(h.rows[i])]))

(***************************************************************************)
(* Extended stock analysis                                                  *)
(***************************************************************************)
MaShortPeriod == 10

MaLongPeriod == 50

RsiPeriod == 14

RsiLimit == 70

BollingerPeriod == 20

BollingerNumStd == 2

VolumeMultiplier == Num(3, 2)

NoRecord(symbol) == [none |-> TRUE, data |-> [symbol |-> symbol]]

Record(data) == [none |-> FALSE, data |-> data]

basic_ma_criteria_only(last_trade_price, ma_short, ma_long, rsi) ==
    FGt(last_trade_price, ma_short) /\ FGt(ma_short, ma_long)

\* the Python expression  a > b and b > c and d < e  on floats
basic_ma_rsi_criteria(last_trade_price, ma_short, ma_long, rsi) ==
    FGt(last_trade_price, ma_short) /\ FGt(ma_short, ma_long) /\ FLt(rsi, Float(RsiLimit))

analyze_stock_full(symbol, q, h) ==
    LET quote == get_quote(q)
        parsed == ParseLastTradePrice(quote)
        df == get_historicals(h)
    IN  IF quote.kind = "none" THEN NoRecord(symbol)
        ELSE IF parsed.exc # "none" THEN NoRecord(symbol)
        ELSE IF df.none \/ Len(df.rows) = 0 THEN NoRecord(symbol)
        ELSE LET close == Column(df, "close_price")
                 n == Len(df.rows)
                 last_trade_price == parsed.value
                 ma_short == compute_moving_average(close, MaShortPeriod)[n]
                 ma_long == compute_moving_average(close, MaLongPeriod)[n]
                 rsi == compute_rsi(close, RsiPeriod)[n]
             IN  Record([symbol |-> symbol,
                         last_trade_price |-> last_trade_price,
                         ma_short |-> ma_short,
                         ma_long |-> ma_long,
                         rsi |-> rsi,
                         basic_ma_rsi_criteria |->
                             basic_ma_rsi_criteria(last_trade_price, ma_short, ma_long, rsi),
                         bullish_macd |-> check_bullish_macd(close).value,
                         bollinger_bounce |->
                             check_bollinger_bounce(df, BollingerPeriod,
                                                    Float(BollingerNumStd)).value,
                         volume_spike |-> check_volume_spike(df, VolumeMultiplier).value,
                         bullish_engulfing |-> detect_bullish_engulfing(df).value,
                         bullish_hammer |-> detect_bullish_hammer(df).value])

(***************************************************************************)
(* State.                                                                   *)
(*   pc          where analyze_top_movers stands                            *)
(*   top_movers  what its own get_top_movers() call returned                *)
(*   universe    the upstream top-movers data of that call                  *)
(*   symbols, idx, results   its locals                                     *)
(*   outcome     how it ended: the value returned or the exception raised   *)
(*   trace       per-symbol external calls and sleeps, in order             *)
(*   call, args, ret   the engine function last applied, its inputs and    *)
(*               its result                                                 *)
(*   frame       the caller's DataFrame handed to that function, as the    *)
(*               caller sees it: before the call, then after it            *)
(***************************************************************************)
VARIABLES pc, top_movers, universe, symbols, idx, results, outcome, trace, call, args, ret,
          frame

(***************************************************************************)
(* State of stream_chatgpt_response (src/gpt_actions.py).                   *)
(*   sync_stream what stream_chatgpt_response_sync has still to do          *)
(*   worker      the worker thread: not_started, running, finished, died    *)
(*   loop_ready  the callbacks call_soon_threadsafe has scheduled on the    *)
(*               event loop and that have not run yet, oldest first         *)
(*   queue       the asyncio.Queue                                          *)
(*   consumer    the async generator: created, waiting (in its while        *)
(*               loop), ended                                               *)
(*   produced    the chunks the synchronous generator has yielded           *)
(*   delivered   the chunks the async generator has yielded                 *)
(***************************************************************************)
VARIABLES sync_stream, worker, loop_ready, queue, consumer, produced, delivered

stream_vars == <<sync_stream, worker, loop_ready, queue, consumer, produced, delivered>>

(***************************************************************************)
(* State of the Telegram conversation (src/stonksGPT.py).                   *)
(*   state       the ConversationHandler's state                            *)
(*   handler, stage   the callback that is running and where it stands      *)
(*   selected_feature   context.user_data['selected_feature']               *)
(*   analysis_stream    what the analysis stream has still to do            *)
(*   accumulated_content, current_message, last_edit_time   locals of       *)
(*               company_input                                              *)
(*   now         the clock read by time.time()                              *)
(*   sent        the calls made to Telegram since the callback started      *)
(*   pending     the exception in flight, "none" when there is none         *)
(*   returned    what the callback handed back to the ConversationHandler   *)
(***************************************************************************)
VARIABLES state, handler, stage, selected_feature, analysis_stream, accumulated_content,
          current_message, last_edit_time, now, sent, pending, returned

bot_vars == <<state, handler, stage, selected_feature, analysis_stream, accumulated_content,
              current_message, last_edit_time, now, sent, pending, returned>>

chat_vars == <<stream_vars, bot_vars>>

vars == <<pc, top_movers, universe, symbols, idx, results, outcome, trace, call, args, ret,
          frame, chat_vars>>

batch_vars == <<pc, top_movers, universe, symbols, idx, results, outcome, trace>>

NoArgs == [none |-> TRUE]

Running == [exc |-> "running", value |-> None]

\* ConversationHandler.END, also the state of a conversation not yet begun
END == -1

\* analysis_stream = None
NoStream == [chunks |-> << >>, ending |-> "none"]

\* the empty string
EmptyText == [kind |-> "content", lo |-> 0, hi |-> 0]

\* no stream has been opened
StreamIdle ==
    /\ sync_stream = None
    /\ worker = "not_started"
    /\ loop_ready = << >>
    /\ queue = << >>
    /\ consumer = "created"
    /\ produced = << >>
    /\ delivered = << >>

\* the bot has not been started
BotIdle ==
    /\ state = END
    /\ handler = "none"
    /\ stage = "idle"
    /\ selected_feature = None
    /\ analysis_stream = NoStream
    /\ accumulated_content = EmptyText
    /\ current_message = 0
    /\ last_edit_time = 0
    /\ now = 0
    /\ sent = << >>
    /\ pending = "none"
    /\ returned = << >>

BatchInit ==
    /\ pc = "start"
    /\ top_movers = PyNone
    /\ universe = << >>
    /\ symbols = << >>
    /\ idx = 0
    /\ results = << >>
    /\ outcome = Running
    /\ trace = << >>

Init ==
    /\ BatchInit
    /\ StreamIdle
    /\ BotIdle
    /\ call = "none"
    /\ args = NoArgs
    /\ ret = NoArgs
    /\ frame = NoFrame

\* line 473: print(json.dumps(get_top_movers(), indent=3)); the value is
\* None or a list, which json.dumps accepts
PrintTopMovers ==
    /\ pc = "start"
    /\ \E resp \in MoversResponses : get_top_movers(resp).none \in BOOLEAN
    /\ pc' = "fetch"
    /\ UNCHANGED <<top_movers, universe, symbols, idx, results, outcome, trace, call, args, ret, frame, chat_vars>>

\* line 475: top_movers = get_top_movers()
FetchTopMovers ==
    /\ pc = "fetch"
    /\ \E resp \in MoversResponses :
          /\ top_movers' = get_top_movers(resp)
          /\ universe' = resp.data
    /\ pc' = "extract"
    /\ UNCHANGED <<symbols, idx, results, outcome, trace, call, args, ret, frame, chat_vars>>

\* lines 476-478: the tickers of top_movers, or the exception the loop raises
RECURSIVE ExtractTickers(_, _)
ExtractTickers(list, acc) ==
    IF Len(list) = 0 THEN Return(acc)
    ELSE LET ticker == Subscript(Head(list))
         IN  IF ticker.exc # "none" THEN Raise(ticker.exc)
             ELSE ExtractTickers(Tail(list), Append(acc, ticker.value.ticker))

\* lines 474-487: build symbols; None is not iterable
ExtractSymbols ==
    /\ pc = "extract"
    /\ LET got == IF top_movers.none THEN Raise("TypeError")
                  ELSE ExtractTickers(top_movers.list, << >>)
       IN  IF got.exc # "none"
           THEN /\ outcome' = [exc |-> got.exc, value |-> None]
                /\ pc' = "done"
                /\ UNCHANGED <<symbols, idx, results>>
           ELSE IF Len(got.value) = 0
           THEN /\ outcome' = [exc |-> "none", value |-> None]
                /\ pc' = "done"
                /\ symbols' = got.value
                /\ UNCHANGED <<idx, results>>
           ELSE /\ symbols' = got.value
                /\ results' = << >>
                /\ idx' = 1
                /\ pc' = "loop"
                /\ UNCHANGED outcome
    /\ UNCHANGED <<top_movers, universe, trace, call, args, ret, frame, chat_vars>>

\* what results becomes after a call that returned stock_data
AppendAlways(res, stock_data) == Append(res, stock_data.data)

\* lines 491-492: if stock_data: results.append(stock_data)
AppendIfRecord(res, stock_data) ==
    IF ~ stock_data.none THEN Append(res, stock_data.data) ELSE res

\* the loop body with the delay skipped for a symbol that gave no record
AnalyzeSymbolNoDelayOnSkip ==
    /\ pc = "loop"
    /\ \E q \in QuoteResponses, h \in BatchHistResponses :
          LET symbol == symbols[idx]
              stock_data == analyze_stock_full(symbol, q, h)
          IN  /\ results' = AppendIfRecord(results, stock_data)
              /\ call' = "analyze_stock_full"
              /\ args' = [none |-> FALSE, symbol |-> symbol, quote |-> q, hist |-> h]
              /\ ret' = stock_data
              /\ trace' = trace \o <<[op |-> "analyze", symbol |-> symbol,
                                      returned |-> ~ stock_data.none]>>
              /\ idx' = IF stock_data.none THEN idx + 1 ELSE idx
              /\ pc' = IF ~ stock_data.none THEN "sleep"
                       ELSE IF idx < Len(symbols) THEN "loop" ELSE "report"
    /\ UNCHANGED <<top_movers, universe, symbols, outcome, frame, chat_vars>>

\* lines 488-492: stock_data = analyze_stock_full(symbol); append it if truthy
AnalyzeSymbol ==
    /\ pc = "loop"
    /\ \E q \in QuoteResponses, h \in BatchHistResponses :
          LET symbol == symbols[idx]
              stock_data == analyze_stock_full(symbol, q, h)
          IN  /\ results' = AppendIfRecord(results, stock_data)
              /\ call' = "analyze_stock_full"
              /\ args' = [none |-> FALSE, symbol |-> symbol, quote |-> q, hist |-> h]
              /\ ret' = stock_data
              /\ trace' = trace \o <<[op |-> "analyze", symbol |-> symbol,
                                      returned |-> ~ stock_data.none]>>
    /\ pc' = "sleep"
    /\ UNCHANGED <<top_movers, universe, symbols, idx, outcome, frame, chat_vars>>

\* line 494: time.sleep(0.5), then the next symbol or the end of the loop
Sleep ==
    /\ pc = "sleep"
    /\ trace' = Append(trace, [op |-> "sleep", symbol |-> symbols[idx], returned |-> FALSE])
    /\ idx' = idx + 1
    /\ pc' = IF idx < Len(symbols) THEN "loop" ELSE "report"
    /\ UNCHANGED <<top_movers, universe, symbols, results, outcome, call, args, ret, frame, chat_vars>>

\* lines 496-509: print the table or the no-data message; the function ends
\* without a return statement
Report ==
    /\ pc = "report"
    /\ outcome' = [exc |-> "none", value |-> None]
    /\ pc' = "done"
    /\ UNCHANGED <<top_movers, universe, symbols, idx, results, trace, call, args, ret, frame, chat_vars>>

Next == PrintTopMovers \/ FetchTopMovers \/ ExtractSymbols \/ AnalyzeSymbol \/ Sleep \/ Report

Spec == Init /\ [][Next]_vars

(***************************************************************************)
(* Claims about the batch runner (checked under Spec)                       *)
(***************************************************************************)
SignalRecordFields ==
    {"symbol", "last_trade_price", "ma_short", "ma_long", "rsi",
     "basic_ma_rsi_criteria", "bullish_macd", "bollinger_bounce",
     "volume_spike", "bullish_engulfing", "bullish_hammer"}

IsAnalyze(e) == e.op = "analyze"

IsReturned(e) == e.op = "analyze" /\ e.returned

SymbolsOf(s) == [i \in 1..Len(s) |-> s[i].symbol]

\* the symbols analyze_stock_full was called for, in call order
Analysed == SymbolsOf(SelectSeq(trace, IsAnalyze))

\* the tickers of the upstream top-movers data, in upstream order
UniverseTickers == [i \in 1..Len(universe) |-> universe[i].ticker]

WellFormedUniverse ==
    /\ Len(universe) > 0
    /\ \A i \in 1..Len(universe) : universe[i].kind = "dict_str"

\* C1: when analyze_top_movers has ended on a non-empty universe of
\* {"symbol": ticker} entries, it has not raised and it has called
\* analyze_stock_full for every symbol of the universe, in order, whatever
\* the per-symbol failures were.
C1_VisitsAllWithoutRaising ==
    (pc = "done" /\ WellFormedUniverse)
        => (outcome.exc = "none" /\ Analysed = UniverseTickers)

C3_ReturnsReport ==
    (pc = "done" /\ outcome.exc = "none") => outcome.value # None

\* what get_top_movers hands back when it lists the ticker of every entry of
\* the upstream data, in upstream order
EveryTicker == PyList([i \in 1..Len(universe) |-> PyVal("str", universe[i].ticker)])

\* C22: once get_top_movers has answered for upstream data made of
\* {"symbol": ticker} entries, its value is the list of the tickers of all
\* the entries, in upstream order, and analyze_top_movers consumes it as
\* its symbol universe without raising.
C22_ReturnsEveryTicker ==
    (pc \notin {"start", "fetch"} /\ WellFormedUniverse)
        => /\ top_movers = EveryTicker
           /\ pc = "done" => outcome.exc = "none"

IsSleep(e) == e.op = "sleep"

AnalyzeInputs ==
    {[none |-> FALSE, symbol |-> "AAPL", quote |-> q, hist |-> h] :
        q \in QuoteResponses, h \in HistResponses}

InitAnalyze ==
    /\ BatchInit
    /\ StreamIdle
    /\ BotIdle
    /\ call = "none"
    /\ args \in AnalyzeInputs
    /\ ret = NoArgs
    /\ frame = NoFrame

ApplyAnalyze ==
    /\ call = "none"
    /\ call' = "analyze_stock_full"
    /\ ret' = analyze_stock_full(args.symbol, args.quote, args.hist)
    /\ UNCHANGED <<args, batch_vars, frame, chat_vars>>

NextAnalyze == ApplyAnalyze

SpecAnalyze == InitAnalyze /\ [][NextAnalyze]_vars

(***************************************************************************)
(* Claims about analyze_stock_full (checked under SpecAnalyze)              *)
(***************************************************************************)
Analyzed == call = "analyze_stock_full"

QuoteUnavailable == args.quote.kind \in {"error", "none"}

CandlesUnavailable == args.hist.kind # "rows" \/ Len(args.hist.rows) = 0

\* C4 as claimed: no record exactly when the quote is unavailable, the last
\* trade price cannot be parsed or is not supplied, or the candles are
\* unavailable or empty; otherwise a record with the eleven fields.
C4_AsClaimed ==
    Analyzed =>
        /\ ret.none <=> \/ QuoteUnavailable
                        \/ args.quote.price \in {"junk", "null", "absent"}
                        \/ CandlesUnavailable
        /\ (~ ret.none) => DOMAIN ret.data = SignalRecordFields

\* C4 amended: no record exactly when the quote is unavailable, the supplied
\* last trade price is no number (a non-numeric string or null), or the
\* candles are unavailable or empty; a quote without a last_trade_price
\* entry counts as price 0 and, as in every other case, yields a record
\* with the eleven fields.
C4_NoRecordCases ==
    Analyzed =>
        /\ ret.none <=> \/ QuoteUnavailable
                        \/ args.quote.price \in {"junk", "null"}
                        \/ CandlesUnavailable
        /\ (~ ret.none) =>
              /\ DOMAIN ret.data = SignalRecordFields
              /\ ret.data.symbol = args.symbol
              /\ args.quote.price = "absent" => ret.data.last_trade_price = Float(0)
              /\ args.quote.price = "num" =>
                    ret.data.last_trade_price = Float(args.quote.v)

\* C4 witness: a quote without last_trade_price and good candles gave a record
C4_Witness ==
    /\ Analyzed
    /\ args.quote.kind = "dict" /\ args.quote.price = "absent"
    /\ ~ ret.none

\* integer reference values on the raw closes of the analysed series
RawClose(i) == args.hist.rows[i].close_price

RECURSIVE RawSum(_, _)
RawSum(lo, hi) == IF lo > hi THEN 0 ELSE RawClose(hi) + RawSum(lo, hi - 1)

RECURSIVE RawGain(_, _)
RawGain(lo, hi) ==
    IF lo > hi THEN 0
    ELSE (IF RawClose(hi) > RawClose(hi - 1) THEN RawClose(hi) - RawClose(hi - 1) ELSE 0)
            + RawGain(lo, hi - 1)

RECURSIVE RawLoss(_, _)
RawLoss(lo, hi) ==
    IF lo > hi THEN 0
    ELSE (IF RawClose(hi) < RawClose(hi - 1) THEN RawClose(hi - 1) - RawClose(hi) ELSE 0)
            + RawLoss(lo, hi - 1)

RawLast == IF args.quote.price = "num" THEN args.quote.v ELSE 0

\* last > SMA(10), SMA(10) > SMA(50) and RSI(14) < 70 at the tail, in integers:
\* RSI = 100 G / (G + L) < 70 iff 3 G < 7 L (false when L = 0)
RefBasicCriteria ==
    LET n == Len(args.hist.rows)
    IN  /\ n >= MaLongPeriod
        /\ MaShortPeriod * RawLast > RawSum(n - MaShortPeriod + 1, n)
        /\ MaLongPeriod * RawSum(n - MaShortPeriod + 1, n) > MaShortPeriod * RawSum(n - MaLongPeriod + 1, n)
        /\ (100 - RsiLimit) * RawGain(n - RsiPeriod + 1, n) < RsiLimit * RawLoss(n - RsiPeriod + 1, n)

\* C5: in every returned record basic_ma_rsi_criteria is true exactly when
\* last_trade_price > ma_short, ma_short > ma_long and rsi < 70 hold on the
\* tail values of SMA(10), SMA(50) and RSI(14) of the closes; it is false
\* whenever the series has fewer than 50 candles.
C5_BasicCriteria ==
    (Analyzed /\ ~ ret.none) =>
        /\ ret.data.basic_ma_rsi_criteria <=> RefBasicCriteria
        /\ ret.data.basic_ma_rsi_criteria <=>
              /\ FGt(ret.data.last_trade_price, ret.data.ma_short)
              /\ FGt(ret.data.ma_short, ret.data.ma_long)
              /\ FLt(ret.data.rsi, Float(RsiLimit))
        /\ Len(args.hist.rows) < MaLongPeriod =>
              IsNaN(ret.data.ma_long) /\ ~ ret.data.basic_ma_rsi_criteria
        /\ Len(args.hist.rows) >= MaLongPeriod =>
              ret.data.ma_long = Num(RawSum(Len(args.hist.rows) - MaLongPeriod + 1,
                                            Len(args.hist.rows)), MaLongPeriod)

\* C5 witness: a record whose basic criteria hold
C5_Witness == Analyzed /\ ~ ret.none /\ ret.data.basic_ma_rsi_criteria

IsAscending(rows) ==
    \A i \in 1..(Len(rows) - 1) : rows[i].begins_at < rows[i + 1].begins_at

\* C19: every candle series that reaches the detectors is in ascending
\* timestamp order whatever order the upstream sent it in, both the series
\* analyze_stock_full obtains through get_historicals and the series main
\* obtains through generate_historical_dataframes.
C19_SeriesSortedAscending ==
    (Analyzed /\ ~ ret.none) =>
        /\ IsAscending(get_historicals(args.hist).rows)
        /\ IsAscending(generate_historical_dataframes(args.hist).rows)

\* the optional columns the analysed candles came without
AbsentCols == AllCols \ args.hist.cols

\* the detector fields that need a column that is absent
NeedsAbsentCol(field) ==
    \/ field = "volume_spike" /\ "volume" \in AbsentCols
    \/ field = "bullish_engulfing" /\ "open_price" \in AbsentCols
    \/ field = "bullish_hammer"
          /\ AbsentCols \cap {"open_price", "high_price", "low_price"} # {}

\* the record of the same quote and the same candles with every column sent
RecordWithAllCols ==
    analyze_stock_full(args.symbol, args.quote, [args.hist EXCEPT !.cols = AllCols])

\* C21: when optional columns (open, high, low, volume) are absent from the
\* candles, the record has false in exactly the detector fields that need
\* an absent column (volume: volume_spike; open: bullish_engulfing and
\* bullish_hammer; high or low: bullish_hammer) and in every other field
\* the value it has when the same candles come with every column.
C21_AbsentColumnsOnlySilenceTheirDetectors ==
    (Analyzed /\ args.hist.kind = "rows" /\ AbsentCols # {}) =>
        LET full == RecordWithAllCols
        IN  /\ ret.none = full.none
            /\ (~ ret.none) =>
                  \A field \in SignalRecordFields :
                      ret.data[field] = IF NeedsAbsentCol(field) THEN FALSE
                                        ELSE full.data[field]

\* C21 witness: candles without volume whose record would report a volume
\* spike had the volume been sent, next to an RSI that is a number
C21_Witness ==
    /\ Analyzed /\ ~ ret.none
    /\ AbsentCols = {"volume"}
    /\ RecordWithAllCols.data.volume_spike
    /\ ~ ret.data.volume_spike
    /\ IsNum(ret.data.rsi)

(***************************************************************************)
(* The pattern detectors applied to short series                            *)
(***************************************************************************)
ParseRows(rows) == [i \in 1..Len(rows) |-> ParseRow(rows[i])]

DetectPrefixLens == {0, 1, 17, 18}

DetectSeries ==
    { Stamp([i \in 1..n |-> FlatCandle] \o suffix) :
        n \in DetectPrefixLens, suffix \in SeqsUpTo(FreeCandles, 2) }

\* a frame without rows has no columns (pd.DataFrame([])) or all of them
DetectFrames(colsets) ==
    {Frame(cs, ParseRows(r)) : cs \in colsets, r \in {x \in DetectSeries : Len(x) > 0}}
        \cup {Frame(cs, << >>) : cs \in {{}, AllCols}}

\* series of VolumeWindow candles for the volume detector: a run of equal
\* volumes (none, or BaseVolume each) and two last volumes around BaseVolume
VolumeCandle(v) == RawCandle(BasePrice, BasePrice, BasePrice, BasePrice, v)

SpikeVolumes ==
    {0} \cup {BaseVolume - k : k \in {400, 500, 600}}
        \cup {BaseVolume + k : k \in {400, 500, 600}}

SpikeFrames ==
    {Frame(AllCols,
           ParseRows(Stamp([i \in 1..(VolumeWindow - 2) |-> VolumeCandle(w)]
                           \o <<VolumeCandle(a), VolumeCandle(b)>>))) :
        w \in {0, BaseVolume}, a \in SpikeVolumes, b \in SpikeVolumes}

\* candles for the engulfing detector, priced in halves: open o2 / 2 and
\* close c2 / 2, high and low at the ends of the body
HalfCandle(o2, c2) ==
    [begins_at |-> 0, open_price |-> Num(o2, 2), close_price |-> Num(c2, 2),
     high_price |-> Num(IF o2 > c2 THEN o2 ELSE c2, 2),
     low_price |-> Num(IF o2 > c2 THEN c2 ELSE o2, 2),
     volume |-> Float(BaseVolume)]

\* 8.5, 9, 10 and 10.5
EngulfingHalves == {17, 18, 20, 21}

EngulfingFrames ==
    {Frame(AllCols, Stamp(first \o <<HalfCandle(a, b), HalfCandle(c, d)>>)) :
        first \in {<< >>, <<HalfCandle(21, 17)>>, <<HalfCandle(17, 21)>>},
        a \in EngulfingHalves, b \in EngulfingHalves,
        c \in EngulfingHalves, d \in EngulfingHalves}

\* single candles for the hammer detector: every open, close, high and low
\* the upstream can send from a few prices, a high below the low included
HammerPrices == {4, 5, 8, 9}

HammerFrames ==
    {Frame(AllCols, ParseRows(Stamp(<<RawCandle(o, c, h, l, BaseVolume)>>))) :
        o \in HammerPrices, c \in HammerPrices, h \in HammerPrices, l \in HammerPrices}

DetectInput(fn, df, period, num_std, multiplier) ==
    [none |-> FALSE, fn |-> fn, df |-> df, period |-> period, num_std |-> num_std,
     multiplier |-> multiplier]

BollingerPeriods == {2, 3, BollingerPeriod}

BollingerNumStds == {0, BollingerNumStd}

DetectInputs ==
    {DetectInput("check_bullish_macd", df, 0, Float(0), Float(0)) :
        df \in DetectFrames({AllCols})}
    \cup {DetectInput("check_bollinger_bounce", df, p, Float(k), Float(0)) :
        df \in DetectFrames({AllCols}), p \in BollingerPeriods, k \in BollingerNumStds}
    \cup {DetectInput("check_volume_spike", df, 0, Float(0), VolumeMultiplier) :
        df \in DetectFrames(ColSets) \cup SpikeFrames}
    \cup {DetectInput("detect_bullish_engulfing", df, 0, Float(0), Float(0)) :
        df \in DetectFrames({AllCols, AllCols \ {"open_price"}}) \cup EngulfingFrames}
    \cup {DetectInput("detect_bullish_hammer", df, 0, Float(0), Float(0)) :
        df \in DetectFrames({AllCols, AllCols \ {"low_price"}}) \cup HammerFrames}

InitDetect ==
    /\ BatchInit
    /\ StreamIdle
    /\ BotIdle
    /\ call = "none"
    /\ args \in DetectInputs
    /\ ret = NoArgs
    /\ frame = args.df

Applied(fn, result) ==
    /\ call = "none"
    /\ args.fn = fn
    /\ call' = fn
    /\ ret' = result
    /\ frame' = DetectorCallerFrame(frame)
    /\ UNCHANGED <<args, batch_vars, chat_vars>>

ApplyBullishMacd ==
    Applied("check_bullish_macd", check_bullish_macd(Column(args.df, "close_price")))

ApplyBollingerBounce ==
    Applied("check_bollinger_bounce",
            check_bollinger_bounce(args.df, args.period, args.num_std))

ApplyVolumeSpike ==
    Applied("check_volume_spike", check_volume_spike(args.df, args.multiplier))

ApplyBullishEngulfing ==
    Applied("detect_bullish_engulfing", detect_bullish_engulfing(args.df))

ApplyBullishHammer ==
    Applied("detect_bullish_hammer", detect_bullish_hammer(args.df))

NextDetect ==
    \/ ApplyBullishMacd
    \/ ApplyBollingerBounce
    \/ ApplyVolumeSpike
    \/ ApplyBullishEngulfing
    \/ ApplyBullishHammer

SpecDetect == InitDetect /\ [][NextDetect]_vars

(***************************************************************************)
(* Claims about the detectors (checked under SpecDetect)                    *)
(***************************************************************************)
Detectors ==
    {"check_bullish_macd", "check_bollinger_bounce", "check_volume_spike",
     "detect_bullish_engulfing", "detect_bullish_hammer"}

\* the number of candles below which a detector has too little history
NeededCandles ==
    CASE args.fn = "check_bullish_macd" -> 2
      [] args.fn = "check_bollinger_bounce" -> args.period
      [] args.fn = "check_volume_spike" -> VolumeWindow
      [] args.fn = "detect_bullish_engulfing" -> 2
      [] args.fn = "detect_bullish_hammer" -> 1

\* C6: every detector returns false, and raises nothing, on a series that
\* is too short for it, the series without candles included.
C6_ShortSeriesGiveFalse ==
    (call \in Detectors /\ Len(args.df.rows) < NeededCandles)
        => (ret.exc = "none" /\ ret.value = FALSE)

\* integer reference: the sum of the last k closes of the series
DetClose(i) == args.df.rows[i].close_price.n

RECURSIVE DetSum(_, _)
DetSum(lo, hi) == IF lo > hi THEN 0 ELSE DetClose(hi) + DetSum(lo, hi - 1)

BollingerFlatBands ==
    /\ call = "check_bollinger_bounce"
    /\ args.num_std = Float(0)
    /\ Len(args.df.rows) > 0

\* C10 as claimed: with num_std = 0 check_bollinger_bounce returns false
\* for every series of positive closes.
C10_AsClaimed == BollingerFlatBands => (ret.exc = "none" /\ ret.value = FALSE)

\* C10 amended: with num_std = 0 the lower band is the moving average, and
\* check_bollinger_bounce returns true exactly when the series has at least
\* period closes and sma < latest close <= 1.01 * sma; it is false on every
\* constant series and whenever the latest close is at or below the average
\* or more than 1% above it.
C10_FlatBandsBounce ==
    BollingerFlatBands =>
        LET n == Len(args.df.rows)
            sum == DetSum(n - args.period + 1, n)
        IN  /\ ret.exc = "none"
            /\ ret.value <=> /\ n >= args.period
                             /\ args.period * DetClose(n) > sum
                             /\ 100 * args.period * DetClose(n) <= 101 * sum

\* C10 witness: a bounce reported with num_std = 0
C10_Witness == BollingerFlatBands /\ ret.exc = "none" /\ ret.value

\* the closes the detector was applied to, and the MACD histogram
\* (macd_line - signal_line) of those closes
DetPrices == Column(args.df, "close_price")

DetHist == compute_macd(DetPrices, MacdFast, MacdSlow, MacdSignal).macd_hist

\* C11: check_bullish_macd returns true exactly when the series has at least
\* two points, the MACD line is strictly below the signal line at the
\* second-to-last index and strictly above it at the last; equality at
\* either index, and a series of fewer than two points, give false.
C11_StrictUpwardCross ==
    call = "check_bullish_macd" =>
        LET n == Len(DetPrices)
            m == compute_macd(DetPrices, MacdFast, MacdSlow, MacdSignal)
        IN  /\ ret.exc = "none"
            /\ ret.value <=> /\ n >= 2
                             /\ FSign(DetHist[n - 1]) < 0
                             /\ FSign(DetHist[n]) > 0
            /\ n < 2 => ~ ret.value
            /\ (n >= 2 /\ m.macd_line[n - 1] = m.signal_line[n - 1]) => ~ ret.value
            /\ (n >= 2 /\ m.macd_line[n] = m.signal_line[n]) => ~ ret.value

\* C11 witness: an upward cross in the last step was reported
C11_Witness == call = "check_bullish_macd" /\ ret.exc = "none" /\ ret.value

\* a rise out of a flat run: equal lines at the second-to-last index
C11_WitnessEquality ==
    /\ call = "check_bullish_macd" /\ Len(DetPrices) >= 2
    /\ FSign(DetHist[Len(DetPrices) - 1]) = 0
    /\ FSign(DetHist[Len(DetPrices)]) > 0
    /\ ~ ret.value

\* integer reference: the sum of the last k volumes of the series
DetVolume(i) == args.df.rows[i].volume.n

RECURSIVE DetVolumeSum(_, _)
DetVolumeSum(lo, hi) == IF lo > hi THEN 0 ELSE DetVolume(hi) + DetVolumeSum(lo, hi - 1)

\* C12: check_volume_spike returns true exactly when the frame has a volume
\* column, the mean of the trailing 20 volumes is positive and the latest
\* volume is at least multiplier times that mean, equality included; with
\* multiplier 1.5 and a trailing mean of 1000 a latest volume of 1600 gives
\* true and 1400 gives false; a zero trailing mean gives false.
C12_SpikeIffAtLeastMultiple ==
    call = "check_volume_spike" =>
        LET n == Len(args.df.rows)
            sum == DetVolumeSum(n - VolumeWindow + 1, n)
            full == "volume" \in args.df.cols /\ n >= VolumeWindow
        IN  /\ (ret.exc = "none" /\ ret.value) <=>
                  /\ full
                  /\ sum > 0
                  /\ VolumeWindow * DetVolume(n) * args.multiplier.d
                        >= args.multiplier.n * sum
            /\ (full /\ sum = 0) => ret = Return(FALSE)
            /\ (full /\ sum = 1000 * VolumeWindow /\ args.multiplier = Num(3, 2)) =>
                  /\ DetVolume(n) = 1600 => ret = Return(TRUE)
                  /\ DetVolume(n) = 1500 => ret = Return(TRUE)
                  /\ DetVolume(n) = 1400 => ret = Return(FALSE)

\* C12 witness: a spike reported at equality, latest = multiplier * mean
C12_Witness ==
    /\ call = "check_volume_spike" /\ ret = Return(TRUE)
    /\ Len(args.df.rows) >= VolumeWindow
    /\ VolumeWindow * DetVolume(Len(args.df.rows)) * args.multiplier.d
          = args.multiplier.n * DetVolumeSum(Len(args.df.rows) - VolumeWindow + 1,
                                             Len(args.df.rows))

\* x < y on rationals, in integers
RatLt(x, y) == x.n * y.d < y.n * x.d

\* the last candle but k of the series
DetCandle(k) == args.df.rows[Len(args.df.rows) - k]

IsBody(candle, o2, c2) == candle.open_price = Num(o2, 2) /\ candle.close_price = Num(c2, 2)

\* C13: detect_bullish_engulfing returns true exactly when the series has
\* two candles or more and, on the last two, the previous close is below
\* the previous open, the current close above the current open, the current
\* open below the previous close and the current close above the previous
\* open, all strictly; it is true on (10, 9), (8.5, 10.5), false on (9, 10),
\* (10.5, 8.5), and no earlier candle matters.
C13_EngulfingOnLastTwo ==
    call = "detect_bullish_engulfing" =>
        LET has == /\ Len(args.df.rows) >= 2
                   /\ {"open_price", "close_price"} \subseteq args.df.cols
        IN  /\ ret.exc = "none"
            /\ ret.value <=>
                  /\ has
                  /\ RatLt(DetCandle(1).close_price, DetCandle(1).open_price)
                  /\ RatLt(DetCandle(0).open_price, DetCandle(0).close_price)
                  /\ RatLt(DetCandle(0).open_price, DetCandle(1).close_price)
                  /\ RatLt(DetCandle(1).open_price, DetCandle(0).close_price)
            /\ (has /\ IsBody(DetCandle(1), 20, 18) /\ IsBody(DetCandle(0), 17, 21))
                  => ret.value
            /\ (has /\ IsBody(DetCandle(1), 18, 20) /\ IsBody(DetCandle(0), 21, 17))
                  => ~ ret.value

\* C13 witness: the pattern reported on (10, 9), (8.5, 10.5) after an
\* earlier candle
C13_Witness ==
    /\ call = "detect_bullish_engulfing" /\ ret = Return(TRUE)
    /\ Len(args.df.rows) = 3
    /\ IsBody(DetCandle(1), 20, 18) /\ IsBody(DetCandle(0), 17, 21)

\* integer references on the last candle
HammerBody == Abs(DetCandle(0).close_price.n - DetCandle(0).open_price.n)

HammerRange == DetCandle(0).high_price.n - DetCandle(0).low_price.n

HammerLowerShadow ==
    (IF DetCandle(0).open_price.n < DetCandle(0).close_price.n
     THEN DetCandle(0).open_price.n ELSE DetCandle(0).close_price.n)
        - DetCandle(0).low_price.n

\* C14: detect_bullish_hammer returns true exactly when, on the last
\* candle, range = high - low > 0, body = |close - open| > 0,
\* body / range < 0.3 and lowerShadow / body > 2; it returns false for
\* every candle whose range is zero or negative or whose body is zero, and
\* raises nothing.
C14_HammerIffPositiveRange ==
    call = "detect_bullish_hammer" =>
        LET has == /\ Len(args.df.rows) >= 1
                   /\ {"open_price", "close_price", "high_price", "low_price"}
                         \subseteq args.df.cols
        IN  /\ ret.exc = "none"
            /\ ret.value <=>
                  /\ has
                  /\ HammerRange > 0
                  /\ HammerBody > 0
                  /\ 10 * HammerBody < 3 * HammerRange
                  /\ HammerLowerShadow > 2 * HammerBody

(***************************************************************************)
(* is_golden_cross_imminent applied to series and parameters                *)
(***************************************************************************)
MaxCrossLen == 6

ShortPeriodDefault == 50

LongPeriodDefault == 200

LookbackDefault == 5

GapThresholdDefault == Num(2, 100)

CrossPrices == {12, 13, 14}

CloseOnly(c) == RawCandle(c, c, c, c, BaseVolume)

CloseSeries(closes) == Stamp([i \in 1..Len(closes) |-> CloseOnly(closes[i])])

\* every series of up to MaxCrossLen closes, for small periods
SmallCrossInputs ==
    {[none |-> FALSE, fn |-> "is_golden_cross_imminent",
      df |-> Frame(AllCols, ParseRows(CloseSeries(closes))),
      short_period |-> sp, long_period |-> lp, lookback |-> lb, gap_threshold |-> gt] :
        closes \in SeqsUpTo(CrossPrices, MaxCrossLen),
        sp \in {2}, lp \in {3, 4}, lb \in {1, 2, 3},
        gt \in {Num(1, 100), GapThresholdDefault}}

\* a flat run, a dip of one below it, and a recovery, for the default periods
DipSeries(flat, dip, rec) ==
    CloseSeries([i \in 1..(flat + dip + rec) |->
        IF i <= flat \/ i > flat + dip THEN BasePrice ELSE BasePrice - 1])

DefaultCrossInputs ==
    {[none |-> FALSE, fn |-> "is_golden_cross_imminent",
      df |-> Frame(AllCols, ParseRows(DipSeries(flat, dip, rec))),
      short_period |-> ShortPeriodDefault, long_period |-> LongPeriodDefault,
      lookback |-> LookbackDefault, gap_threshold |-> GapThresholdDefault] :
        flat \in {150, 200}, dip \in {0, 50}, rec \in {0, 5, 9}}

CrossInputs == SmallCrossInputs \cup DefaultCrossInputs

InitCross ==
    /\ BatchInit
    /\ StreamIdle
    /\ BotIdle
    /\ call = "none"
    /\ args \in CrossInputs
    /\ ret = NoArgs
    /\ frame = args.df

ApplyGoldenCross ==
    /\ call = "none"
    /\ args.fn = "is_golden_cross_imminent"
    /\ call' = "is_golden_cross_imminent"
    /\ ret' = is_golden_cross_imminent(args.df, args.short_period, args.long_period,
                                       args.lookback, args.gap_threshold)
    /\ frame' = is_golden_cross_imminent_caller_frame(frame, args.short_period,
                                                      args.long_period)
    /\ UNCHANGED <<args, batch_vars, chat_vars>>

NextCross == ApplyGoldenCross

SpecCross == InitCross /\ [][NextCross]_vars

(***************************************************************************)
(* Claims about is_golden_cross_imminent (checked under SpecCross)          *)
(***************************************************************************)
Crossed == call = "is_golden_cross_imminent"

CrossLen == Len(args.df.rows)

\* integer references on the closes: the sum of the k closes ending at i
CrossClose(i) == args.df.rows[i].close_price.n

RECURSIVE CrossSum(_, _)
CrossSum(k, i) == IF k = 0 THEN 0 ELSE CrossClose(i) + CrossSum(k - 1, i - 1)

ShortSum(i) == CrossSum(args.short_period, i)

LongSum(i) == CrossSum(args.long_period, i)

\* (ma_long - ma_short) at row i, times short_period * long_period
ScaledGap(i) == args.short_period * LongSum(i) - args.long_period * ShortSum(i)

\* rows on which both moving averages are defined
CleanCount ==
    LET first == IF args.short_period > args.long_period THEN args.short_period
                 ELSE args.long_period
    IN  IF CrossLen < first THEN 0 ELSE CrossLen - first + 1

\* C7: on a series shorter than long_period the function returns false at
\* its first return statement, before any moving average is computed.
C7_ShortSeriesFalse ==
    (Crossed /\ CrossLen < args.long_period)
        => /\ ret.result = FALSE
           /\ ret.exit = "insufficient_data"
           /\ IsNaN(ret.slope_short) /\ IsNaN(ret.gap_slope) /\ IsNaN(ret.current_gap_ratio)

\* C7 witness: a non-empty series shorter than long_period was evaluated
C7_Witness == Crossed /\ CrossLen > 0 /\ CrossLen < args.long_period

\* C8: with at least long_period candles and at least lookback clean rows,
\* the result is true exactly when ma_short < ma_long at the last row and
\* slope_short > 0 and gap_slope < 0 and current_gap_ratio <= gap_threshold;
\* it is false whenever ma_short >= ma_long at the last row.
C8_TrueIffConditions ==
    (Crossed /\ CrossLen >= args.long_period /\ CleanCount >= args.lookback)
        => /\ ScaledGap(CrossLen) <= 0 => (ret.result = FALSE /\ ret.exit = "crossed")
           /\ ScaledGap(CrossLen) > 0 => ret.exit = "evaluated"
           /\ ret.result <=>
                /\ ScaledGap(CrossLen) > 0
                /\ FGt(ret.slope_short, Float(0))
                /\ FLt(ret.gap_slope, Float(0))
                /\ FLe(ret.current_gap_ratio, args.gap_threshold)
           /\ ret.exit = "evaluated" =>
                ret.current_gap_ratio =
                    Num(ScaledGap(CrossLen), args.short_period * LongSum(CrossLen))

\* C8 witness: an imminent cross reported
C8_Witness == Crossed /\ ret.result

\* C9 as claimed: slope_short and gap_slope are the differences between the
\* last clean row and the clean row lookback rows before it, over lookback.
C9_AsClaimed ==
    (Crossed /\ ret.exit = "evaluated" /\ CleanCount > args.lookback)
        => /\ ret.slope_short =
                Num(ShortSum(CrossLen) - ShortSum(CrossLen - args.lookback),
                    args.short_period * args.lookback)
           /\ ret.gap_slope =
                Num(ScaledGap(CrossLen) - ScaledGap(CrossLen - args.lookback),
                    args.short_period * args.long_period * args.lookback)

\* C9 amended: slope_short and gap_slope are the differences between the
\* last clean row and the first of the trailing lookback clean rows, which
\* lies lookback - 1 rows before it (index last - lookback + 1), each
\* divided by lookback.
C9_SlopeOverTrailingWindow ==
    (Crossed /\ ret.exit = "evaluated")
        => /\ ret.slope_short =
                Num(ShortSum(CrossLen) - ShortSum(CrossLen - args.lookback + 1),
                    args.short_period * args.lookback)
           /\ ret.gap_slope =
                Num(ScaledGap(CrossLen) - ScaledGap(CrossLen - args.lookback + 1),
                    args.short_period * args.long_period * args.lookback)

\* C9 witness: slopes computed over a window with earlier clean rows before it
C9_Witness ==
    /\ Crossed /\ ret.exit = "evaluated" /\ CleanCount > args.lookback
    /\ FGt(ret.slope_short, Float(0)) /\ FLt(ret.gap_slope, Float(0))

\* C26: with lookback = 1 the function returns false for every series; when
\* it reaches the final decision the trailing window holds one clean row, so
\* slope_short and gap_slope are both 0.
C26_LookbackOneIsFalse ==
    (Crossed /\ args.lookback = 1)
        => /\ ~ ret.result
           /\ ret.exit = "evaluated"
                 => (ret.slope_short = Float(0) /\ ret.gap_slope = Float(0))

\* C26 witness: lookback = 1 reaches the final decision on a series whose
\* short average is rising towards the long one and whose gap is within the
\* threshold, so only the two zero slopes keep the result false
C26_Witness ==
    /\ Crossed /\ args.lookback = 1 /\ ret.exit = "evaluated"
    /\ FLe(ret.current_gap_ratio, args.gap_threshold)
    /\ CleanCount > 1
    /\ ShortSum(CrossLen) > ShortSum(CrossLen - 1)
    /\ ScaledGap(CrossLen) < ScaledGap(CrossLen - 1)

(***************************************************************************)
(* The indicator functions applied to price series                          *)
(***************************************************************************)
FloatSeries(ints) == [i \in 1..Len(ints) |-> Float(ints[i])]

IndicatorInput(fn, prices, period) ==
    [none |-> FALSE, fn |-> fn, prices |-> FloatSeries(prices), period |-> period]

MaxSeriesLen == 5

SmallPrices == {BasePrice, BasePrice + 1, BasePrice + 3}

\* every series of up to MaxSeriesLen prices
SmallSeries == SeqsUpTo(SmallPrices, MaxSeriesLen)

SmallPeriods == {2, 3}

ConstantSeries(c, n) == [i \in 1..n |-> c]

\* a run of k equal prices, then u rises of one, then up to two free moves
RunSeries(k, u, moves) ==
    LET base == [i \in 1..(k + u) |-> IF i <= k THEN BasePrice ELSE BasePrice + (i - k)]
        top == BasePrice + u
    IN  base \o [j \in 1..Len(moves) |->
                    top + (IF j = 1 THEN moves[1] ELSE moves[1] + moves[2])]

RunInputs ==
    {RunSeries(k, u, moves) :
        k \in {1, 2, RsiPeriod}, u \in {0, 1, RsiPeriod, RsiPeriod + 1},
        moves \in SeqsUpTo({-1, 0, 1}, 2)}

\* The prices of a strictly increasing series on which both EMAs and the
\* signal line stay whole numbers: after price x with EMAs f and s and
\* signal g, the next price is the first one above x + gap that leaves
\* (x' - f) a multiple of 13, (x' - s) a multiple of 27 and (macd' - g) a
\* multiple of 5.
WholeStepModulus == 1755

NextWholePrice(x, f, s, g, gap) ==
    CHOOSE y \in (x + gap + 1)..(x + gap + WholeStepModulus) :
        /\ (y - f) % (MacdFast + 1) = 0
        /\ (y - s) % (MacdSlow + 1) = 0
        /\ ((f + 2 * ((y - f) \div (MacdFast + 1)))
              - (s + 2 * ((y - s) \div (MacdSlow + 1))) - g) % 5 = 0

RECURSIVE WholeSeriesFrom(_, _, _, _, _, _)
WholeSeriesFrom(acc, f, s, g, gaps, k) ==
    IF k > Len(gaps) THEN acc
    ELSE LET y == NextWholePrice(acc[Len(acc)], f, s, g, gaps[k])
             f2 == f + 2 * ((y - f) \div (MacdFast + 1))
             s2 == s + 2 * ((y - s) \div (MacdSlow + 1))
             g2 == g + (((f2 - s2) - g) \div 5)
         IN  WholeSeriesFrom(Append(acc, y), f2, s2, g2, gaps, k + 1)

WholeSeries(first, gaps) == WholeSeriesFrom(<<first>>, first, first, 0, gaps, 1)

\* a rise of at least big after the price at position at, small rises elsewhere
JumpGaps(n, at, big) == [i \in 1..(n - 1) |-> IF i = at THEN big ELSE 0]

BigRise == 1000 * WholeStepModulus

RisingSeries ==
    {WholeSeries(BasePrice, JumpGaps(n, at, big)) :
        n \in {MacdSlow, MacdSlow + 1}, at \in {1, 5, MacdSlow - 1}, big \in {0, BigRise}}

IndicatorInputs ==
    {IndicatorInput("compute_moving_average", q, p) :
        q \in SmallSeries \cup {ConstantSeries(BasePrice, n) : n \in {MaShortPeriod, MaLongPeriod + 1}},
        p \in SmallPeriods \cup {MaShortPeriod}}
    \cup {IndicatorInput("compute_rsi", q, p) :
        q \in SmallSeries, p \in SmallPeriods}
    \cup {IndicatorInput("compute_rsi", q, RsiPeriod) :
        q \in RunInputs \cup {ConstantSeries(BasePrice, n) : n \in {RsiPeriod, RsiPeriod + 2}}}
    \cup {IndicatorInput("compute_macd", q, 0) :
        q \in {x \in SmallSeries : Len(x) <= 3}
              \cup {ConstantSeries(c, n) : c \in SmallPrices, n \in {MacdSlow, MacdSlow + 4}}
              \cup RisingSeries}

InitIndicators ==
    /\ BatchInit
    /\ StreamIdle
    /\ BotIdle
    /\ call = "none"
    /\ args \in IndicatorInputs
    /\ ret = NoArgs
    /\ frame = NoFrame

ApplyMovingAverage ==
    /\ call = "none"
    /\ args.fn = "compute_moving_average"
    /\ call' = "compute_moving_average"
    /\ ret' = Strict(compute_moving_average(args.prices, args.period))
    /\ UNCHANGED <<args, batch_vars, frame, chat_vars>>

ApplyRsi ==
    /\ call = "none"
    /\ args.fn = "compute_rsi"
    /\ call' = "compute_rsi"
    /\ ret' = Strict(compute_rsi(args.prices, args.period))
    /\ UNCHANGED <<args, batch_vars, frame, chat_vars>>

ApplyMacd ==
    /\ call = "none"
    /\ args.fn = "compute_macd"
    /\ call' = "compute_macd"
    /\ ret' = LET m == compute_macd(args.prices, MacdFast, MacdSlow, MacdSignal)
              IN  [macd_line |-> m.macd_line, signal_line |-> m.signal_line,
                   macd_hist |-> Strict(m.macd_hist)]
    /\ UNCHANGED <<args, batch_vars, frame, chat_vars>>

NextIndicators == ApplyMovingAverage \/ ApplyRsi \/ ApplyMacd

SpecIndicators == InitIndicators /\ [][NextIndicators]_vars

(***************************************************************************)
(* Claims about the indicators (checked under SpecIndicators)               *)
(***************************************************************************)
Price(i) == args.prices[i].n

SeriesLen == Len(args.prices)

\* integer references: the gains and the losses among the period price
\* differences that end at position i
RECURSIVE GainSum(_, _)
GainSum(lo, hi) ==
    IF lo > hi THEN 0
    ELSE (IF Price(hi) > Price(hi - 1) THEN Price(hi) - Price(hi - 1) ELSE 0)
            + GainSum(lo, hi - 1)

RECURSIVE LossSum(_, _)
LossSum(lo, hi) ==
    IF lo > hi THEN 0
    ELSE (IF Price(hi) < Price(hi - 1) THEN Price(hi - 1) - Price(hi) ELSE 0)
            + LossSum(lo, hi - 1)

Gains(i) == GainSum(i - args.period + 1, i)

Losses(i) == LossSum(i - args.period + 1, i)

\* C15: compute_rsi is undefined at every position with fewer than period
\* differences before it, is exactly 100 wherever the trailing period
\* differences hold no loss and at least one gain, lies within [0, 100]
\* wherever it is defined (where it is 100 G / (G + L)), and is never
\* infinite; the zero denominator raises nothing.
C15_RsiSaturatesAndIsBounded ==
    call = "compute_rsi" =>
        /\ Len(ret) = SeriesLen
        /\ \A i \in 1..SeriesLen :
              /\ i <= args.period => IsNaN(ret[i])
              /\ (i > args.period /\ Losses(i) = 0 /\ Gains(i) > 0) => ret[i] = Float(100)
              /\ (i > args.period /\ Gains(i) + Losses(i) > 0) =>
                    ret[i] = Num(100 * Gains(i), Gains(i) + Losses(i))
              /\ ret[i].k \in {"num", "nan"}
              /\ IsNum(ret[i]) => (ret[i].n >= 0 /\ ret[i].n <= 100 * ret[i].d)

\* C15 witness: an RSI of exactly 100 with the default period, and a value
\* strictly between 0 and 100 after it
C15_Witness ==
    /\ call = "compute_rsi" /\ args.period = RsiPeriod
    /\ \E i \in (args.period + 1)..SeriesLen : Losses(i) = 0 /\ ret[i] = Float(100)
    /\ \E i \in 1..SeriesLen : IsNum(ret[i]) /\ ret[i].n > 0 /\ ret[i].n < 100 * ret[i].d

IsConstantSeries == SeriesLen >= 1 /\ \A i \in 1..SeriesLen : Price(i) = Price(1)

IndicatorWindow == IF args.fn = "compute_macd" THEN MacdSlow ELSE args.period

\* C16: on a constant series at least as long as the window, the SMA is
\* that constant from position period - 1 on, both EMAs are that constant
\* at every position, the MACD line, the signal line and the histogram are
\* 0 everywhere, and the RSI is undefined (0 / 0) at every position.
C16_ConstantSeries ==
    (call # "none" /\ IsConstantSeries /\ SeriesLen >= IndicatorWindow) =>
        LET c == Float(Price(1))
        IN  /\ call = "compute_moving_average" =>
                  \A i \in args.period..SeriesLen : ret[i] = c
            /\ call = "compute_macd" =>
                  LET ema_fast == EwmMean(args.prices, MacdFast)
                      ema_slow == EwmMean(args.prices, MacdSlow)
                  IN  \A i \in 1..SeriesLen :
                        /\ ema_fast[i] = c /\ ema_slow[i] = c
                        /\ ret.macd_line[i] = Float(0)
                        /\ ret.signal_line[i] = Float(0)
                        /\ ret.macd_hist[i] = Float(0)
            /\ call = "compute_rsi" => \A i \in 1..SeriesLen : IsNaN(ret[i])

\* C16 witness: the RSI of a constant series with full windows
C16_Witness ==
    /\ call = "compute_rsi" /\ args.period = RsiPeriod
    /\ IsConstantSeries /\ SeriesLen > RsiPeriod + 1
    /\ IsNaN(ret[SeriesLen])

IsRisingSeries == SeriesLen >= 2 /\ \A i \in 2..SeriesLen : Price(i) > Price(i - 1)

\* C17 as claimed: on a strictly increasing series of at least 26 prices the
\* MACD line is strictly positive at every index after the first and
\* strictly increasing from each index to the next.
C17_AsClaimed ==
    (call = "compute_macd" /\ IsRisingSeries /\ SeriesLen >= MacdSlow) =>
        \A i \in 2..SeriesLen :
            /\ FGt(ret.macd_line[i], Float(0))
            /\ FGt(ret.macd_line[i], ret.macd_line[i - 1])

\* C17 amended: on a strictly increasing series, of at least 26 prices or
\* shorter, the MACD line is 0 at the first index and strictly positive at
\* every index after it; it need not increase from index to index.
C17_PositiveAfterFirst ==
    (call = "compute_macd" /\ IsRisingSeries) =>
        /\ ret.macd_line[1] = Float(0)
        /\ \A i \in 2..SeriesLen : FGt(ret.macd_line[i], Float(0))

\* C17 witness: a rising series of at least 26 prices whose MACD line falls
\* at some index while staying positive
C17_Witness ==
    /\ call = "compute_macd" /\ IsRisingSeries /\ SeriesLen >= MacdSlow
    /\ \E i \in 2..SeriesLen :
          /\ FLt(ret.macd_line[i], ret.macd_line[i - 1])
          /\ FGt(ret.macd_line[i], Float(0))

(***************************************************************************)
(* The detectors and the trend evaluation, each applied to a caller's frame *)
(***************************************************************************)
EffectInputs ==
    DetectInputs
        \cup DefaultCrossInputs
        \cup {x \in SmallCrossInputs : Len(x.df.rows) \in {2, 3, 4}}

InitEffects ==
    /\ BatchInit
    /\ StreamIdle
    /\ BotIdle
    /\ call = "none"
    /\ args \in EffectInputs
    /\ ret = NoArgs
    /\ frame = args.df

NextEffects == NextDetect \/ ApplyGoldenCross

SpecEffects == InitEffects /\ [][NextEffects]_vars

(***************************************************************************)
(* Claims about the caller's frame (checked under SpecEffects)              *)
(***************************************************************************)
\* C20: after check_bullish_macd, check_bollinger_bounce, check_volume_spike,
\* detect_bullish_engulfing, detect_bullish_hammer or is_golden_cross_imminent
\* has ended, with any result, the caller's series has the rows, the columns
\* and the values it had before the call.
C20_CallerFrameUnchanged ==
    call \in Detectors \cup {"is_golden_cross_imminent"} =>
        /\ frame.cols = args.df.cols
        /\ Len(frame.rows) = Len(args.df.rows)
        /\ \A i \in 1..Len(frame.rows) :
              /\ DOMAIN frame.rows[i] = DOMAIN args.df.rows[i]
              /\ \A c \in DOMAIN args.df.rows[i] : frame.rows[i][c] = args.df.rows[i][c]

\* C20 witness: is_golden_cross_imminent went past its copy and wrote both
\* moving averages before it returned
C20_Witness ==
    /\ call = "is_golden_cross_imminent"
    /\ ret.exit = "evaluated"
    /\ Len(frame.rows) >= args.long_period


(***************************************************************************)
(* stream_chatgpt_response (src/gpt_actions.py).  A worker thread runs the  *)
(* synchronous generator and schedules queue.put_nowait on the event loop   *)
(* for every chunk, then for the end marker None; the async generator       *)
(* reads the queue until it meets None.                                     *)
(***************************************************************************)
MaxChunks == 3

ChunkTexts == {"a", "b"}

\* lines 30-47: the synchronous generator yields non-empty chunks (the empty
\* ones are dropped at line 46) and then ends, or it raises: the request of
\* line 38 or the iteration of line 44 failed
SyncStreams ==
    {[chunks |-> c, raises |-> r] : c \in SeqsUpTo(ChunkTexts, MaxChunks), r \in BOOLEAN}

InitStream ==
    /\ BatchInit
    /\ BotIdle
    /\ call = "none"
    /\ args = NoArgs
    /\ ret = NoArgs
    /\ frame = NoFrame
    /\ sync_stream \in SyncStreams
    /\ worker = "not_started"
    /\ loop_ready = << >>
    /\ queue = << >>
    /\ consumer = "created"
    /\ produced = << >>
    /\ delivered = << >>

\* lines 51-61: the queue is created and the worker thread started; the
\* generator enters its while loop
StartWorker ==
    /\ consumer = "created"
    /\ worker' = "running"
    /\ consumer' = "waiting"
    /\ UNCHANGED <<sync_stream, loop_ready, queue, produced, delivered>>

\* lines 56-57: the next chunk of the synchronous generator is handed to the
\* event loop
WorkerPut ==
    /\ worker = "running"
    /\ sync_stream.chunks # << >>
    /\ produced' = Append(produced, Head(sync_stream.chunks))
    /\ loop_ready' = Append(loop_ready, Head(sync_stream.chunks))
    /\ sync_stream' = [sync_stream EXCEPT !.chunks = Tail(@)]
    /\ UNCHANGED <<worker, queue, consumer, delivered>>

\* line 58: the synchronous generator is exhausted; the end marker is handed
\* to the event loop and the thread ends
WorkerSignalEnd ==
    /\ worker = "running"
    /\ sync_stream.chunks = << >>
    /\ ~ sync_stream.raises
    /\ loop_ready' = Append(loop_ready, None)
    /\ worker' = "finished"
    /\ UNCHANGED <<sync_stream, queue, consumer, produced, delivered>>

\* line 56: the synchronous generator raises; nothing in worker catches it,
\* so the exception ends the thread and line 58 is never reached
WorkerDies ==
    /\ worker = "running"
    /\ sync_stream.chunks = << >>
    /\ sync_stream.raises
    /\ worker' = "died"
    /\ UNCHANGED <<sync_stream, loop_ready, queue, consumer, produced, delivered>>

\* the event loop runs the oldest scheduled callback: queue.put_nowait(chunk)
RunCallback ==
    /\ loop_ready # << >>
    /\ queue' = Append(queue, Head(loop_ready))
    /\ loop_ready' = Tail(loop_ready)
    /\ UNCHANGED <<sync_stream, worker, consumer, produced, delivered>>

\* lines 63-67: chunk = await queue.get(); None breaks the loop, anything
\* else is yielded
ConsumerGet ==
    /\ consumer = "waiting"
    /\ queue # << >>
    /\ queue' = Tail(queue)
    /\ IF Head(queue) = None
       THEN consumer' = "ended" /\ UNCHANGED delivered
       ELSE delivered' = Append(delivered, Head(queue)) /\ UNCHANGED consumer
    /\ UNCHANGED <<sync_stream, worker, loop_ready, produced>>

\* nothing else in the program moves while the stream runs
StreamFrame == UNCHANGED <<batch_vars, call, args, ret, frame, bot_vars>>

WorkerStep == WorkerPut \/ WorkerSignalEnd \/ WorkerDies

NextStream ==
    \/ StartWorker /\ StreamFrame
    \/ WorkerPut /\ StreamFrame
    \/ WorkerSignalEnd /\ StreamFrame
    \/ WorkerDies /\ StreamFrame
    \/ RunCallback /\ StreamFrame
    \/ ConsumerGet /\ StreamFrame

\* the generator's first step starts the thread, the operating system runs
\* the worker thread, the event loop runs every scheduled callback and
\* resumes the generator once the queue holds an item
SpecStream ==
    /\ InitStream
    /\ [][NextStream]_vars
    /\ WF_vars(StartWorker /\ StreamFrame)
    /\ WF_vars(WorkerStep /\ StreamFrame)
    /\ WF_vars(RunCallback /\ StreamFrame)
    /\ WF_vars(ConsumerGet /\ StreamFrame)

(***************************************************************************)
(* Claims about stream_chatgpt_response (checked under SpecStream)          *)
(***************************************************************************)
IsPrefix(s, t) == Len(s) <= Len(t) /\ SubSeq(t, 1, Len(s)) = s

\* the worker's run is over and everything it produced has been delivered
StreamComplete ==
    /\ worker \in {"finished", "died"}
    /\ consumer = "ended"
    /\ delivered = produced

\* C23: the async consumer is delivered exactly the chunks the synchronous
\* generator produced, in production order, none lost or duplicated, and
\* its loop ends after the last chunk in every run of the worker, the runs
\* in which the synchronous generator raises included.
C23_DeliversAllAndTerminates ==
    /\ [](IsPrefix(delivered, produced))
    /\ <>StreamComplete

\* the delivery half of C23 alone: what has been delivered is a prefix of
\* what has been produced, and a consumer that has ended has it all
StreamDeliversInOrder ==
    /\ IsPrefix(delivered, produced)
    /\ consumer = "ended" => (delivered = produced /\ worker = "finished")

\* the termination half of C23 on the runs whose generator does not raise
StreamEndsUnlessRaised == (~ sync_stream.raises) ~> StreamComplete

\* the run that never ends: the generator has raised after a chunk, the
\* chunk has been delivered and the consumer waits on an empty queue
StreamHangs ==
    /\ worker = "died" /\ consumer = "waiting"
    /\ loop_ready = << >> /\ queue = << >>
    /\ delivered = produced /\ Len(produced) > 0


(***************************************************************************)
(* The Telegram bot (src/stonksGPT.py).                                     *)
(*                                                                         *)
(* A text is a fixed string, named by kind, or a slice of the analysis      *)
(* stream's content: kind "content" with the characters lo+1..hi of the     *)
(* concatenation of all the chunks of the stream.                           *)
(***************************************************************************)
SELECTING_ACTION == 0

WAITING_FOR_COMPANY == 1

CALLBACK_ONE_YEAR_ANALYSIS == "one_year_analysis"

CALLBACK_BULLISH_CHECK == "bullish_check"

TELEGRAM_MAX_LENGTH == 4096

Literal(kind) == [kind |-> kind, lo |-> 0, hi |-> 0]

Content(lo, hi) == [kind |-> "content", lo |-> lo, hi |-> hi]

\* len(text) of a slice of the content
TextLen(text) == text.hi - text.lo

\* text[:n]
SliceHead(text, n) ==
    Content(text.lo, IF text.lo + n < text.hi THEN text.lo + n ELSE text.hi)

\* text[n:]
SliceRest(text, n) ==
    Content(IF text.lo + n < text.hi THEN text.lo + n ELSE text.hi, text.hi)

\* one call made to Telegram, how it was answered and the stage of the
\* callback that made it
Outgoing(op, message, text, result) ==
    [op |-> op, message |-> message, text |-> text, result |-> result, during |-> stage]

\* send_main_menu: the photo with the main menu keyboard
MainMenu == Outgoing("send_photo", 0, Literal("Select an action:"), "ok")

\* the text message number id shows after the calls of log, the empty text
\* when log does not hold the message
RECURSIVE Shown(_, _)
Shown(log, id) ==
    IF Len(log) = 0 THEN EmptyText
    ELSE LET last == log[Len(log)]
         IN  IF /\ last.message = id
                /\ last.result = "ok"
                /\ last.op \in {"reply_text", "send_message", "edit_text"}
             THEN last.text
             ELSE Shown(SubSeq(log, 1, Len(log) - 1), id)

\* the Bot API's answer to editMessageText: a text over the limit and a text
\* equal to the one shown are refused with BadRequest (the fixed texts are
\* far below the limit)
EditResult(log, id, text) ==
    IF text.kind = "content" /\ TextLen(text) > TELEGRAM_MAX_LENGTH THEN "Message is too long"
    ELSE IF Shown(log, id) = text THEN "Message is not modified"
    ELSE "ok"

\* await <message id>.edit_text(text): the log afterwards and what was raised
edit_text(log, id, text) ==
    LET result == EditResult(log, id, text)
    IN  [log |-> Append(log, Outgoing("edit_text", id, text, result)),
         exc |-> IF result = "ok" THEN "none" ELSE "BadRequest",
         str |-> result]

MaxStreamChunks == 3

\* lengths of the chunks an analysis stream yields
ChunkLens == {0, 1, TELEGRAM_MAX_LENGTH - 1, TELEGRAM_MAX_LENGTH, TELEGRAM_MAX_LENGTH + 1}

\* what an analysis stream does: it yields chunks, possibly none, then ends
\* or raises
AnalysisStreams ==
    {[chunks |-> c, ending |-> e] :
        c \in SeqsUpTo(ChunkLens, MaxStreamChunks), e \in {"ends", "raises"}}

\* what analyze_top_movers() does when called: it raises TypeError or it
\* returns None
BatchOutcomes == {[exc |-> "TypeError", value |-> None], [exc |-> "none", value |-> None]}

\* line 134: await analyze_top_movers(): the call is made first and its
\* value awaited; None cannot be awaited
AwaitCall(o) ==
    IF o.exc # "none" THEN Raise(o.exc)
    ELSE IF o.value = None THEN Raise("TypeError")
    ELSE Return(o.value)

\* the clock at the start of a callback, in seconds
StartTime == 10

InitBot ==
    /\ BatchInit
    /\ StreamIdle
    /\ BotIdle
    /\ call = "none"
    /\ args = NoArgs
    /\ ret = NoArgs
    /\ frame = NoFrame

\* the locals of company_input that the other callbacks do not have
NoLocals ==
    /\ UNCHANGED <<analysis_stream, accumulated_content, current_message, last_edit_time, now>>

\* lines 68-81: /start, entry point and fallback of the conversation
StartCommand ==
    /\ handler = "none"
    /\ handler' = "start"
    /\ stage' = "returned"
    /\ sent' = <<Outgoing("send_photo", 0, Literal("Welcome"), "ok")>>
    /\ returned' = <<SELECTING_ACTION>>
    /\ NoLocals
    /\ UNCHANGED <<state, selected_feature, pending>>

\* lines 83-92: the Start button
ShowMainMenu ==
    /\ handler = "none"
    /\ state = SELECTING_ACTION
    /\ handler' = "show_main_menu"
    /\ stage' = "returned"
    /\ sent' = <<Outgoing("answer", 0, EmptyText, "ok"),
                 Outgoing("edit_message_media", 0, Literal("Select an action:"), "ok")>>
    /\ returned' = <<SELECTING_ACTION>>
    /\ NoLocals
    /\ UNCHANGED <<state, selected_feature, pending>>

\* lines 104-125: one_year_analysis and bullish_check, through
\* handle_feature_selection
SelectFeature ==
    /\ handler = "none"
    /\ state = SELECTING_ACTION
    /\ \E feature \in {CALLBACK_ONE_YEAR_ANALYSIS, CALLBACK_BULLISH_CHECK} :
          /\ handler' = feature
          /\ selected_feature' = feature
    /\ stage' = "returned"
    /\ sent' = <<Outgoing("answer", 0, EmptyText, "ok"),
                 Outgoing("edit_message_caption", 0, Literal("Please enter a company"), "ok")>>
    /\ returned' = <<WAITING_FOR_COMPANY>>
    /\ NoLocals
    /\ UNCHANGED <<state, pending>>


\* lines 165-185: a text message in WAITING_FOR_COMPANY; the locals are set,
\* "Processing" is sent and the analysis stream of the feature is chosen
CompanyBegin ==
    /\ handler = "none"
    /\ state = WAITING_FOR_COMPANY
    /\ handler' = "company_input"
    /\ sent' = <<Outgoing("reply_text", 1, Literal("Processing"), "ok")>>
    /\ accumulated_content' = EmptyText
    /\ current_message' = 1
    /\ last_edit_time' = 0
    /\ now' = StartTime
    /\ \E stream \in AnalysisStreams :
          analysis_stream' =
              IF selected_feature \in {CALLBACK_ONE_YEAR_ANALYSIS, CALLBACK_BULLISH_CHECK}
              THEN stream ELSE NoStream
    /\ stage' = IF analysis_stream' = NoStream THEN "finally" ELSE "stream"
    /\ pending' = "none"
    /\ returned' = << >>
    /\ UNCHANGED <<state, selected_feature>>

\* lines 186-203: one turn of the async for loop.  The chunk arrives after
\* less or more than a second; a non-empty chunk is accumulated and, a
\* second or more after the last edit, the whole accumulated content is
\* shown with edit_text
StreamChunk ==
    /\ handler = "company_input"
    /\ stage = "stream"
    /\ analysis_stream.chunks # << >>
    /\ analysis_stream' = [analysis_stream EXCEPT !.chunks = Tail(@)]
    /\ \E elapsed \in {0, 1} : now' = now + elapsed
    /\ LET chunk == Head(analysis_stream.chunks)
           temp_content == Content(0, accumulated_content.hi + chunk)
           current_time == now'
           edit == edit_text(sent, current_message, temp_content)
       IN  IF chunk = 0
           THEN UNCHANGED <<accumulated_content, last_edit_time, sent, pending, stage>>
           ELSE /\ accumulated_content' = temp_content
                /\ IF current_time - last_edit_time >= 1
                   THEN /\ sent' = edit.log
                        /\ last_edit_time' =
                              IF edit.exc = "none" THEN current_time ELSE last_edit_time
                        /\ IF edit.exc = "none" \/ edit.str = "Message is not modified"
                           THEN UNCHANGED <<pending, stage>>
                           ELSE pending' = edit.exc /\ stage' = "except"
                   ELSE UNCHANGED <<last_edit_time, sent, pending, stage>>
    /\ UNCHANGED <<state, handler, selected_feature, current_message, returned>>

\* lines 186, 206: the stream ends; the flush follows if anything was
\* accumulated
StreamEnds ==
    /\ handler = "company_input"
    /\ stage = "stream"
    /\ analysis_stream.chunks = << >>
    /\ analysis_stream.ending = "ends"
    /\ stage' = IF TextLen(accumulated_content) > 0 THEN "flush" ELSE "finally"
    /\ UNCHANGED <<state, handler, selected_feature, analysis_stream, accumulated_content,
                   current_message, last_edit_time, now, sent, pending, returned>>

\* line 186: the stream raises
StreamRaises ==
    /\ handler = "company_input"
    /\ stage = "stream"
    /\ analysis_stream.chunks = << >>
    /\ analysis_stream.ending = "raises"
    /\ pending' = "Exception"
    /\ stage' = "except"
    /\ UNCHANGED <<state, handler, selected_feature, analysis_stream, accumulated_content,
                   current_message, last_edit_time, now, sent, returned>>

\* lines 207-208: content below the limit is sent with one edit_text
FlushShort ==
    /\ handler = "company_input"
    /\ stage = "flush"
    /\ TextLen(accumulated_content) < TELEGRAM_MAX_LENGTH
    /\ LET edit == edit_text(sent, current_message, accumulated_content)
       IN  /\ sent' = edit.log
           /\ pending' = edit.exc
           /\ stage' = IF edit.exc = "none" THEN "finally" ELSE "except"
    /\ UNCHANGED <<state, handler, selected_feature, analysis_stream, accumulated_content,
                   current_message, last_edit_time, now, returned>>

\* lines 209-218: one turn of the splitting loop: the first
\* TELEGRAM_MAX_LENGTH characters go to the current message and, if content
\* is left, a new message is sent to take the next slice
FlushSlice ==
    /\ handler = "company_input"
    /\ \/ stage = "flush" /\ TextLen(accumulated_content) >= TELEGRAM_MAX_LENGTH
       \/ stage = "split"
    /\ LET edit == edit_text(sent, current_message,
                             SliceHead(accumulated_content, TELEGRAM_MAX_LENGTH))
           rest == SliceRest(accumulated_content, TELEGRAM_MAX_LENGTH)
       IN  IF edit.exc # "none"
           THEN /\ sent' = edit.log
                /\ pending' = edit.exc
                /\ stage' = "except"
                /\ UNCHANGED <<accumulated_content, current_message>>
           ELSE /\ accumulated_content' = rest
                /\ pending' = "none"
                /\ IF TextLen(rest) > 0
                   THEN /\ current_message' = current_message + 1
                        /\ sent' = Append(edit.log,
                                          Outgoing("send_message", current_message + 1,
                                                   Literal("Continuing analysis"), "ok"))
                        /\ stage' = "split"
                   ELSE /\ sent' = edit.log
                        /\ stage' = "finally"
                        /\ UNCHANGED current_message
    /\ UNCHANGED <<state, handler, selected_feature, analysis_stream, last_edit_time, now,
                   returned>>

\* the except block with the main menu sent from it as well
CompanyExceptSendsMenu ==
    /\ handler = "company_input"
    /\ stage = "except"
    /\ LET edit == edit_text(sent, 1, Literal("An error occurred"))
       IN  /\ sent' = Append(edit.log, MainMenu)
           /\ pending' = edit.exc
    /\ stage' = "finally"
    /\ UNCHANGED <<state, handler, selected_feature, analysis_stream, accumulated_content,
                   current_message, last_edit_time, now, returned>>

\* lines 219-221: except Exception: the error text replaces the text of the
\* first message
CompanyExcept ==
    /\ handler = "company_input"
    /\ stage = "except"
    /\ LET edit == edit_text(sent, 1, Literal("An error occurred"))
       IN  /\ sent' = edit.log
           /\ pending' = edit.exc
    /\ stage' = "finally"
    /\ UNCHANGED <<state, handler, selected_feature, analysis_stream, accumulated_content,
                   current_message, last_edit_time, now, returned>>

\* lines 222-224: finally: the main menu is sent and SELECTING_ACTION
\* returned; the return discards any exception still in flight
CompanyFinally ==
    /\ handler = "company_input"
    /\ stage = "finally"
    /\ sent' = Append(sent, MainMenu)
    /\ pending' = "none"
    /\ returned' = <<SELECTING_ACTION>>
    /\ stage' = "returned"
    /\ UNCHANGED <<state, handler, selected_feature, analysis_stream, accumulated_content,
                   current_message, last_edit_time, now>>

\* lines 127-133: the Analyze Top Movers button: the query is answered and
\* the caption edited
TopMoversBegin ==
    /\ handler = "none"
    /\ state = SELECTING_ACTION
    /\ handler' = "analyze_top_movers_handler"
    /\ stage' = "analyze"
    /\ sent' = <<Outgoing("answer", 0, EmptyText, "ok"),
                 Outgoing("edit_message_caption", 0, Literal("Analyzing top movers..."), "ok")>>
    /\ pending' = "none"
    /\ returned' = << >>
    /\ NoLocals
    /\ UNCHANGED <<state, selected_feature>>

\* lines 134-138: the batch analysis is awaited, formatted and shown
TopMoversAnalyze ==
    /\ handler = "analyze_top_movers_handler"
    /\ stage = "analyze"
    /\ \E o \in BatchOutcomes :
          LET analysis_results == AwaitCall(o)
          IN  IF analysis_results.exc # "none"
              THEN /\ pending' = analysis_results.exc
                   /\ stage' = "except"
                   /\ UNCHANGED sent
              ELSE /\ sent' = Append(sent, Outgoing("edit_message_caption", 0,
                                                    Literal("Top Movers Analysis Results"), "ok"))
                   /\ stage' = "finally"
                   /\ UNCHANGED pending
    /\ NoLocals
    /\ UNCHANGED <<state, handler, selected_feature, returned>>

\* lines 139-141: except Exception: the apology is sent
TopMoversExcept ==
    /\ handler = "analyze_top_movers_handler"
    /\ stage = "except"
    /\ sent' = Append(sent, Outgoing("reply_text", 1,
                                     Literal("Something went wrong while analyzing top movers."),
                                     "ok"))
    /\ pending' = "none"
    /\ stage' = "finally"
    /\ NoLocals
    /\ UNCHANGED <<state, handler, selected_feature, returned>>

\* lines 142-144: finally: the main menu is sent and SELECTING_ACTION returned
TopMoversFinally ==
    /\ handler = "analyze_top_movers_handler"
    /\ stage = "finally"
    /\ sent' = Append(sent, MainMenu)
    /\ pending' = "none"
    /\ returned' = <<SELECTING_ACTION>>
    /\ stage' = "returned"
    /\ NoLocals
    /\ UNCHANGED <<state, handler, selected_feature>>

\* lines 232-246: the ConversationHandler takes the callback's return value
\* as the new state of the conversation; the callback's locals are gone
HandlerReturns ==
    /\ handler # "none"
    /\ stage = "returned"
    /\ state' = returned[1]
    /\ handler' = "none"
    /\ stage' = "idle"
    /\ analysis_stream' = NoStream
    /\ accumulated_content' = EmptyText
    /\ current_message' = 0
    /\ last_edit_time' = 0
    /\ now' = 0
    /\ sent' = << >>
    /\ returned' = << >>
    /\ UNCHANGED <<selected_feature, pending>>

\* nothing else in the program moves while the bot runs
BotFrame == UNCHANGED <<batch_vars, call, args, ret, frame, stream_vars>>

NextBot ==
    \/ StartCommand /\ BotFrame
    \/ ShowMainMenu /\ BotFrame
    \/ SelectFeature /\ BotFrame
    \/ CompanyBegin /\ BotFrame
    \/ StreamChunk /\ BotFrame
    \/ StreamEnds /\ BotFrame
    \/ StreamRaises /\ BotFrame
    \/ FlushShort /\ BotFrame
    \/ FlushSlice /\ BotFrame
    \/ CompanyExcept /\ BotFrame
    \/ CompanyFinally /\ BotFrame
    \/ TopMoversBegin /\ BotFrame
    \/ TopMoversAnalyze /\ BotFrame
    \/ TopMoversExcept /\ BotFrame
    \/ TopMoversFinally /\ BotFrame
    \/ HandlerReturns /\ BotFrame

SpecBot == InitBot /\ [][NextBot]_vars


\* the clock keeps running, the event loop resumes a callback that can go
\* on, and the analysis stream answers each request for its next item
SpecBotLive == SpecBot /\ WF_vars(NextBot)

(***************************************************************************)
(* Claims about the bot's callbacks (checked under SpecBot, SpecBotLive)    *)
(***************************************************************************)
IsMainMenu(e) == e.op = "send_photo" /\ e.text = Literal("Select an action:")

MenusSent == Cardinality({i \in 1..Len(sent) : IsMainMenu(sent[i])})

MenuCallbacks == {"company_input", "analyze_top_movers_handler"}

IsContentEdit(e) == e.op = "edit_text" /\ e.text.kind = "content"

IsFlushEdit(e) == IsContentEdit(e) /\ e.during \in {"flush", "split"}

\* the texts passed to edit_text by the final flush, in sending order
FlushTexts == SelectSeq(sent, IsFlushEdit)

\* the texts of edits, put end to end, are the characters lo+1..hi
Concatenated(edits, lo, hi) ==
    /\ Len(edits) > 0
    /\ edits[1].text.lo = lo
    /\ edits[Len(edits)].text.hi = hi
    /\ \A i \in 1..(Len(edits) - 1) : edits[i + 1].text.lo = edits[i].text.hi

\* the first half of C25: no content passed to edit_text is over the limit
EditsWithinLimit ==
    \A i \in 1..Len(sent) :
        IsContentEdit(sent[i]) => TextLen(sent[i].text) <= TELEGRAM_MAX_LENGTH

\* the second half of C25: once company_input is over after a final flush,
\* the texts of the flush put end to end are the whole accumulated content
FlushCarriesAll ==
    (handler = "company_input" /\ stage = "returned" /\ Len(FlushTexts) > 0)
        => Concatenated(FlushTexts, 0, accumulated_content.hi)

\* C25: every text company_input passes to edit_text, while streaming and
\* in the final flush, is at most TELEGRAM_MAX_LENGTH characters long, and
\* the texts of the final flush, concatenated in sending order, are the full
\* accumulated analysis content.
C25_EditsWithinLimitAndFlushComplete == EditsWithinLimit /\ FlushCarriesAll

=============================================================================
